---- MODULE Spec2Model ----
(***************************************************************************)
(* Model of the Cashu wallet (src/src/wallets/cashu.ts), its proof ledger  *)
(* and Spend Log (src/src/wallet-db.ts) and the Routstr payment provider   *)
(* (src/src/providers/routstr.ts) of nostr-dm-agent.                       *)
(*                                                                         *)
(* The proofs table is a sequence of rows in rowid order with primary key  *)
(* id.  Every wallet call is a small-step process: one step per network    *)
(* await and one step per SQL statement, so that a failed request or a     *)
(* stopped process can be observed between any two of them.                *)
(***************************************************************************)
EXTENDS Integers, Sequences, FiniteSets, TLC

\* ------------------------------------------------------------------ bounds
MaxAmount == 2        \* largest denomination of a single proof
NumKeysets == 2       \* distinct keyset ids; also the rows of an initial ledger
MaxOps == 2           \* wallet/provider calls started in one behaviour
MaxParts == 2         \* proofs in one set returned by the mint's split
MaxReceives == 1      \* receiveToken calls in a behaviour of SpecReceive
MaxTokenProofs == 3   \* proofs in the largest token minted outside the wallet
MaxStarts == 3        \* bot processes run-with-restart starts
MaxLines == 3         \* lines typed at the local prompt
MaxEvents == 2        \* DMs of the master delivered by the relays
MaxSessions == 2      \* session ids an agent CLI can hand out
MaxTextLen == 7       \* length of a reply to be chunked
CHUNK_MAX == 3        \* messaging.ts 13 (4200), scaled to the texts above

Callers == {1}
KeysetIds == 1 .. NumKeysets
Amounts == 1 .. MaxAmount
mintUrl == "mint"

\* ----------------------------------------------------------------- helpers
RECURSIVE SumSeq(_)
SumSeq(s) == IF s = <<>> THEN 0 ELSE Head(s) + SumSeq(Tail(s))

Range(s) == {s[i] : i \in 1 .. Len(s)}

RECURSIVE FilterSeq(_, _)
\* rows of s whose id is not dropId, order kept
FilterSeq(s, dropId) ==
    IF s = <<>> THEN <<>>
    ELSE IF Head(s).id = dropId THEN FilterSeq(Tail(s), dropId)
         ELSE <<Head(s)>> \o FilterSeq(Tail(s), dropId)

\* the signature value the mint issues for a secret
SigOf(secret) == 1000 + secret

MkProof(id, amount, secret, mint, ts) ==
    [id |-> id, amount |-> amount, secret |-> secret, C |-> SigOf(secret),
     mint |-> mint, updatedAt |-> ts]

Secrets(ps) == {ps[i].secret : i \in 1 .. Len(ps)}

\* wallet-db.ts totalBalance
totalBalance(ps) == SumSeq([i \in 1 .. Len(ps) |-> ps[i].amount])

\* a DELETE that matches no row
DeleteRowByIdNoMatch(table, id) == table

\* one statement of deleteProofs: DELETE FROM proofs WHERE id = ?
DeleteRowById(table, id) == FilterSeq(table, id)

\* one statement of saveProofs: INSERT OR REPLACE keyed by id; the replaced
\* row is removed and the new row gets a fresh rowid (end of the table)
UpsertRow(table, p, ts) ==
    Append(FilterSeq(table, p.id), [p EXCEPT !.updatedAt = ts])

\* deleteProofs run over a whole list (wallet-db.ts 109-118)
RECURSIVE DeleteAll(_, _)
DeleteAll(table, list) ==
    IF list = <<>> THEN table
    ELSE DeleteAll(DeleteRowById(table, Head(list).id), Tail(list))

\* saveProofs run over a whole list (wallet-db.ts 90-107)
RECURSIVE SaveAll(_, _, _)
SaveAll(table, list, ts) ==
    IF list = <<>> THEN table
    ELSE SaveAll(UpsertRow(table, Head(list), ts), Tail(list), ts)

RECURSIVE InsertSorted(_, _)
\* insert p after every element whose amount is <= p.amount (stable)
InsertSorted(s, p) ==
    IF s = <<>> THEN <<p>>
    ELSE IF Head(s).amount <= p.amount
         THEN <<Head(s)>> \o InsertSorted(Tail(s), p)
         ELSE <<p>> \o s

\* the stored order taken as it is
SortByAmountUnsorted(ps) == ps

RECURSIVE SortByAmount(_)
\* [...proofs].sort((a, b) => a.amount - b.amount): ascending, stable
SortByAmount(ps) ==
    IF ps = <<>> THEN <<>>
    ELSE InsertSorted(SortByAmount(SubSeq(ps, 1, Len(ps) - 1)), ps[Len(ps)])

RECURSIVE GreedySelect(_, _, _)
\* the for-loop of sendToken: push proofs until selectedTotal >= amountSats
GreedySelect(sorted, amountSats, selectedTotal) ==
    IF sorted = <<>> \/ selectedTotal >= amountSats THEN <<>>
    ELSE <<Head(sorted)>> \o
         GreedySelect(Tail(sorted), amountSats, selectedTotal + Head(sorted).amount)

\* the projection copying the secret into the signature field
StripSecretAsC(p) == [id |-> p.id, amount |-> p.amount, secret |-> p.secret, C |-> p.secret]

\* the {id, amount, secret, C} projection that goes into a token
Strip(p) == [id |-> p.id, amount |-> p.amount, secret |-> p.secret, C |-> p.C]
StripAll(ps) == [i \in 1 .. Len(ps) |-> Strip(ps[i])]

\* the object sendToken encodes: {token: [{mint, proofs}]}
TokenObject(mint, ps) == [token |-> <<[mint |-> mint, proofs |-> StripAll(ps)]>>]

\* ways the mint cuts the value n into at most MaxParts proofs: one proof of
\* n, or n - (k-1) followed by k-1 proofs of 1
Decomp(n) ==
    IF n = 0 THEN {<<>>}
    ELSE {[i \in 1 .. k |-> IF i = 1 THEN n - (k - 1) ELSE 1] :
             k \in 1 .. (IF n < MaxParts THEN n ELSE MaxParts)}

\* keyset ids the issuer puts on n proofs: ks = 0 gives every proof its own
\* id (1, 2, ... cyclically), ks > 0 signs all of them with keyset ks
KeysetChoices == 0 .. NumKeysets
IdsFor(ks, n) == [i \in 1 .. n |-> IF ks = 0 THEN ((i - 1) % NumKeysets) + 1 ELSE ks]

\* fresh proofs issued by the mint: amounts amts, keyset ids ids, secrets
\* first, first+1, ...
FreshProofs(amts, ids, first, mint, ts) ==
    [i \in 1 .. Len(amts) |-> MkProof(ids[i], amts[i], first + i - 1, mint, ts)]

\* String(budgetSats) and Number(env.ROUTSTR_BUDGET)
ToStr(n) == [digits |-> n]
ToNum(s) == s.digits

\* a value the caller left out (opts.budgetSats undefined)
Undefined == 0 - 1

\* @cashu/cashu-ts getEncodedToken / getDecodedToken: the encoded form is the
\* versioned prefix plus the serialised body, in which a group is the pair
\* <<mint, proofs>> and a proof the tuple <<id, amount, secret, C>>; decoding
\* reads the fields back by position; decoding anything else throws
TokenPrefix == "cashuA"
getEncodedToken(t) ==
    [prefix |-> TokenPrefix,
     body |-> [g \in 1 .. Len(t.token) |->
                 <<t.token[g].mint,
                   [i \in 1 .. Len(t.token[g].proofs) |->
                       <<t.token[g].proofs[i].id, t.token[g].proofs[i].amount,
                         t.token[g].proofs[i].secret, t.token[g].proofs[i].C>>]>>]]
CanDecode(e) == e.prefix = TokenPrefix
getDecodedToken(e) ==
    [token |-> [g \in 1 .. Len(e.body) |->
                  [mint |-> e.body[g][1],
                   proofs |-> [i \in 1 .. Len(e.body[g][2]) |->
                                 [id |-> e.body[g][2][i][1], amount |-> e.body[g][2][i][2],
                                  secret |-> e.body[g][2][i][3], C |-> e.body[g][2][i][4]]]]]]

NoToken == [prefix |-> "", body |-> <<>>]
NoEnv == [ROUTSTR_TOKEN |-> NoToken, ROUTSTR_BUDGET |-> ToStr(0)]
baseUrl == "gateway"
NoInfo == [provider |-> "", balanceSats |-> 0, base |-> ""]

\* ------------------------------------------------------------------- state
VARIABLES
    proofs,        \* the proofs table, rows in rowid order
    spend_log,     \* the spend_log table, rows in insertion order
    now,           \* Date.now()
    nextSecret,    \* next unused secret of the mint / gateway
    calls,         \* per caller: the local variables of the call in flight
    tokens,        \* encoded tokens that exist outside the wallet
    reservations,  \* envs returned by prepareRun and not yet finalized
    nOps,          \* calls started so far
    inputUses,     \* secret -> successful sendToken calls that consumed it
    carriedBy,     \* secret -> returned tokens that carry it
    startBalance,  \* balance when the first prepareRun was called
    watcher,       \* run-with-restart: its child, its flag and the restart file
    seenDb,        \* the bot's database: state table, seen events, sessions
    bot            \* the bot process: handlers in flight and the local line queue

vars == <<proofs, spend_log, now, nextSecret, calls, tokens, reservations,
          nOps, inputUses, carriedBy, startBalance, watcher, seenDb, bot>>

\* getState on a key without a row (db.ts getState: row?.value ?? null)
Null == [null |-> TRUE]

\* the bot's database as openSeenDb creates it: no state rows
EmptyDb == [budget |-> Null, transport |-> Null, seen |-> {},
            backend |-> Null, workspace |-> Null, current |-> Null,
            sessions |-> <<>>]

\* the bot process right after main() has set up its listeners: no local
\* line entered, localQueue resolved, no handler in flight
IdleBot == [lines |-> 0, queue |-> <<>>, chain |-> "resolved", local |-> {},
            order |-> <<>>, skipped |-> {}, settled |-> {}, threw |-> {},
            events |-> 0, nostr |-> {}, nostrSettled |-> {},
            starts |-> 1, handled |-> <<>>, dropped |-> {}, ignoredLocal |-> {},
            returned |-> Null, replaced |-> FALSE,
            text |-> <<>>, chunked |-> FALSE, chunks |-> <<>>]

\* run-with-restart is not running
NoWatcher == [child |-> "none", code |-> 0, restartRequested |-> FALSE,
              file |-> FALSE, event |-> FALSE, starts |-> 0, requested |-> FALSE]

\* the unwrapped gift wrap the subscription hands to onevent: whether
\* unwrapEvent succeeds, and the rumor's pubkey, kind and content
NoEvent == [id |-> 0, unwraps |-> FALSE, pubkey |-> "", kind |-> 0, content |-> ""]

IdleCall ==
    [op |-> "none", via |-> "none", pc |-> "idle",
     amountSats |-> 0, loaded |-> <<>>, selected |-> <<>>,
     keep |-> <<>>, send |-> <<>>, idx |-> 1, saveList |-> <<>>, saveTs |-> 0,
     groups |-> <<>>, newProofs |-> <<>>,
     env |-> NoEnv, refundSats |-> 0,
     pre |-> <<>>, preLog |-> 0, preRes |-> {}, at |-> "idle",
     status |-> "none", available |-> 0, required |-> 0,
     token |-> NoToken, receivedSats |-> 0, result |-> NoEnv,
     threw |-> FALSE, input |-> NoToken, reports |-> <<>>, gateway |-> "none",
     run |-> "none", again |-> FALSE, info |-> NoInfo, history |-> <<>>,
     overlapped |-> FALSE, event |-> NoEvent, source |-> "none", content |-> "",
     commands |-> 0, agentRuns |-> 0, replies |-> 0, seen |-> {},
     optBudget |-> 0, unset |-> FALSE]

\* initial ledgers: up to MaxProofs rows with pairwise distinct ids (the
\* primary key), any denominations, secrets 1, 2, ...
InitLedgers ==
    UNION {
      { [i \in 1 .. n |-> MkProof(i, amts[i], i, mintUrl, 0)] : amts \in [1 .. n -> Amounts] }
      : n \in 0 .. NumKeysets }

Init ==
    /\ proofs \in InitLedgers
    /\ spend_log = <<>>
    /\ now = 0
    /\ nextSecret = NumKeysets + 1
    /\ calls = [c \in Callers |-> IdleCall]
    /\ tokens = {}
    /\ reservations = {}
    /\ nOps = 0
    /\ inputUses = [s \in {} |-> 0]
    /\ carriedBy = [s \in {} |-> 0]
    /\ startBalance = Undefined
    /\ watcher = NoWatcher
    /\ seenDb = EmptyDb
    /\ bot = IdleBot

\* a caller may start a call when its previous one has settled
Settled(c) == calls[c].pc \in {"idle", "done", "stopped"}
\* single-writer discipline: no other call is in flight
Serialized(c) == \A d \in (DOMAIN calls) \ {c} : Settled(d)

CanStart(c) ==
    /\ calls[c].pc \in {"idle", "done"}
    /\ Serialized(c)
    /\ nOps < MaxOps

\* amounts a caller asks for: everything up to one more than the balance
SendAmounts == 0 .. (totalBalance(proofs) + 1)

Fail(call, status) == [call EXCEPT !.pc = "done", !.status = status, !.threw = TRUE]

\* ---------------------------------------------------------------- sendToken
\* InsufficientFundsError built with its two arguments swapped
SendEnterSwappedArgs(call, amountSats, table) ==
    LET loaded == table
        balance == totalBalance(loaded)
        c1 == [call EXCEPT !.amountSats = amountSats, !.loaded = loaded]
    IN IF balance < amountSats
       THEN [c1 EXCEPT !.pc = "done", !.status = "InsufficientFunds", !.threw = TRUE,
                       !.available = amountSats, !.required = balance]
       ELSE [c1 EXCEPT !.pc = "keys"]

\* cashu.ts 147-152: load, balance check, InsufficientFundsError
SendEnter(call, amountSats, table) ==
    LET loaded == table
        balance == totalBalance(loaded)
        c1 == [call EXCEPT !.amountSats = amountSats, !.loaded = loaded]
    IN IF balance < amountSats
       THEN [c1 EXCEPT !.pc = "done", !.status = "InsufficientFunds", !.threw = TRUE,
                       !.available = balance, !.required = amountSats]
       ELSE [c1 EXCEPT !.pc = "keys"]

SendTokenStart(c, amountSats) ==
    /\ CanStart(c)
    /\ calls' = [calls EXCEPT ![c] =
          SendEnter([IdleCall EXCEPT !.op = "sendToken", !.via = "sendToken",
                                     !.pre = proofs, !.preLog = Len(spend_log),
                                     !.preRes = reservations],
                    amountSats, proofs)]
    /\ nOps' = nOps + 1
    /\ now' = now + 1
    /\ UNCHANGED <<bot, seenDb, watcher, startBalance, proofs, spend_log, nextSecret, tokens, reservations,
                   inputUses, carriedBy>>

\* deleteProofs issued right after the selection, ahead of the split request
SendGetKeysetDeleteFirst(c, ok) ==
    /\ calls[c].pc = "keys"
    /\ LET call == calls[c]
           sortedProofs == SortByAmount(call.loaded)
           selected == GreedySelect(sortedProofs, call.amountSats, 0)
           overspend == totalBalance(selected) - call.amountSats
       IN /\ calls' = [calls EXCEPT ![c] =
               IF ~ok THEN Fail(call, "MintError")
               ELSE [call EXCEPT !.selected = selected, !.send = selected,
                                 !.keep = <<>>, !.idx = 1,
                                 !.pc = IF overspend > 0 THEN "split" ELSE "delete"]]
          /\ proofs' = IF ok THEN DeleteAll(proofs, call.loaded) ELSE proofs
    /\ UNCHANGED <<bot, seenDb, watcher, startBalance, spend_log, now, nextSecret, tokens, reservations,
                   nOps, inputUses, carriedBy>>

\* cashu.ts 154-170: await getKeyset, then sort and greedy selection
SendGetKeyset(c, ok) ==
    /\ calls[c].pc = "keys"
    /\ LET call == calls[c]
           sortedProofs == SortByAmount(call.loaded)
           selected == GreedySelect(sortedProofs, call.amountSats, 0)
           overspend == totalBalance(selected) - call.amountSats
       IN calls' = [calls EXCEPT ![c] =
            IF ~ok THEN Fail(call, "MintError")
            ELSE [call EXCEPT !.selected = selected, !.send = selected,
                              !.keep = <<>>, !.idx = 1,
                              !.pc = IF overspend > 0 THEN "split" ELSE "delete"]]
    /\ UNCHANGED <<bot, seenDb, watcher, startBalance, proofs, spend_log, now, nextSecret, tokens, reservations,
                   nOps, inputUses, carriedBy>>

\* splitResult.keep and splitResult.send taken the wrong way round
SendSplitSwapped(c, ok, keepAmts, sendAmts, ks) ==
    /\ calls[c].pc = "split"
    /\ LET call == calls[c]
           nk == Len(keepAmts)
           ns == Len(sendAmts)
           keep == FreshProofs(keepAmts, IdsFor(ks, nk), nextSecret, mintUrl, now)
           send == FreshProofs(sendAmts, IdsFor(ks, ns), nextSecret + nk, mintUrl, now)
       IN IF ~ok
          THEN /\ calls' = [calls EXCEPT ![c] = Fail(call, "MintError")]
               /\ UNCHANGED nextSecret
          ELSE /\ calls' = [calls EXCEPT ![c] =
                     [call EXCEPT !.keep = send, !.send = keep, !.idx = 1,
                                  !.pc = "delete"]]
               /\ nextSecret' = nextSecret + nk + ns
    /\ UNCHANGED <<bot, seenDb, watcher, startBalance, proofs, spend_log, now, tokens, reservations,
                   nOps, inputUses, carriedBy>>

\* cashu.ts 84-124, 172-176: POST /split; a mint that honours its contract
\* answers with fresh keep proofs worth the overspend and fresh send proofs
\* worth the amount
SendSplit(c, ok, keepAmts, sendAmts, ks) ==
    /\ calls[c].pc = "split"
    /\ LET call == calls[c]
           nk == Len(keepAmts)
           ns == Len(sendAmts)
           keep == FreshProofs(keepAmts, IdsFor(ks, nk), nextSecret, mintUrl, now)
           send == FreshProofs(sendAmts, IdsFor(ks, ns), nextSecret + nk, mintUrl, now)
       IN IF ~ok
          THEN /\ calls' = [calls EXCEPT ![c] = Fail(call, "MintError")]
               /\ UNCHANGED nextSecret
          ELSE /\ calls' = [calls EXCEPT ![c] =
                     [call EXCEPT !.keep = keep, !.send = send, !.idx = 1,
                                  !.pc = "delete"]]
               /\ nextSecret' = nextSecret + nk + ns
    /\ UNCHANGED <<bot, seenDb, watcher, startBalance, proofs, spend_log, now, tokens, reservations,
                   nOps, inputUses, carriedBy>>

\* deleteProofs handed the keep list instead of the loaded proofs
SendDeleteListKeep(call) == call.keep

\* the list sendToken hands to deleteProofs (cashu.ts 178)
SendDeleteList(call) == call.loaded

\* where sendToken goes once deleteProofs is through (cashu.ts 180-182)
AfterDelete(call) ==
    IF Len(call.keep) > 0
    THEN [call EXCEPT !.pc = "save", !.idx = 1, !.saveList = call.keep, !.saveTs = now]
    ELSE [call EXCEPT !.pc = "ret"]

\* wallet-db.ts 109-118: one DELETE per listed proof; nothing for an empty list
SendDeleteRow(c) ==
    /\ calls[c].pc = "delete"
    /\ LET call == calls[c]
           list == SendDeleteList(call)
       IN IF call.idx > Len(list)
          THEN /\ calls' = [calls EXCEPT ![c] = AfterDelete(call)]
               /\ UNCHANGED proofs
          ELSE /\ proofs' = DeleteRowById(proofs, list[call.idx].id)
               /\ calls' = [calls EXCEPT ![c] = [call EXCEPT !.idx = call.idx + 1]]
    /\ UNCHANGED <<bot, seenDb, watcher, startBalance, spend_log, now, nextSecret, tokens, reservations,
                   nOps, inputUses, carriedBy>>

\* wallet-db.ts 90-107: one INSERT OR REPLACE per listed proof, all stamped
\* with the Date.now() taken before the loop
SaveRow(c) ==
    /\ calls[c].pc = "save"
    /\ LET call == calls[c]
       IN IF call.idx > Len(call.saveList)
          THEN /\ calls' = [calls EXCEPT ![c] = [call EXCEPT !.pc = "ret"]]
               /\ UNCHANGED proofs
          ELSE /\ proofs' = UpsertRow(proofs, call.saveList[call.idx], call.saveTs)
               /\ calls' = [calls EXCEPT ![c] = [call EXCEPT !.idx = call.idx + 1]]
    /\ UNCHANGED <<bot, seenDb, watcher, startBalance, spend_log, now, nextSecret, tokens, reservations,
                   nOps, inputUses, carriedBy>>

Bump(f, S) == [s \in DOMAIN f \cup S |->
                 (IF s \in DOMAIN f THEN f[s] ELSE 0) + (IF s \in S THEN 1 ELSE 0)]
Reset(f, S) == [s \in DOMAIN f \cup S |-> IF s \in S THEN 0 ELSE f[s]]

\* cashu.ts 184-198 and, when called by prepareRun, routstr.ts 30-34
SendReturn(c) ==
    /\ calls[c].pc = "ret"
    /\ calls[c].op = "sendToken"
    /\ LET call == calls[c]
           encoded == getEncodedToken(TokenObject(mintUrl, call.send))
           env == [ROUTSTR_TOKEN |-> encoded, ROUTSTR_BUDGET |-> ToStr(call.amountSats)]
       IN /\ calls' = [calls EXCEPT ![c] =
                [call EXCEPT !.pc = "done", !.status = "ok", !.token = encoded,
                             !.result = IF call.via = "prepareRun" THEN env ELSE NoEnv]]
          /\ tokens' = tokens \cup {encoded}
          /\ reservations' = IF call.via = "prepareRun"
                             THEN reservations \cup {env} ELSE reservations
          /\ inputUses' = Bump(inputUses, Secrets(call.selected))
          /\ carriedBy' = Bump(carriedBy, Secrets(call.send))
    /\ UNCHANGED <<bot, seenDb, watcher, startBalance, proofs, spend_log, now, nextSecret, nOps>>

\* --------------------------------------------------------------- prepareRun
DefaultBudgetSats == 2000

\* routstr.ts 20-26: default budget, getInfo, balance check
PrepareRunStart(c, optBudget) ==
    /\ CanStart(c)
    /\ LET budgetSats == IF optBudget = Undefined THEN DefaultBudgetSats ELSE optBudget
           balanceSats == totalBalance(proofs)
           call == [IdleCall EXCEPT !.op = "sendToken", !.via = "prepareRun",
                                    !.amountSats = budgetSats, !.optBudget = optBudget,
                                    !.pre = proofs, !.preLog = Len(spend_log),
                                     !.preRes = reservations]
       IN calls' = [calls EXCEPT ![c] =
            IF balanceSats < budgetSats
            THEN [call EXCEPT !.pc = "done", !.status = "InsufficientFunds", !.threw = TRUE,
                              !.available = balanceSats, !.required = budgetSats]
            ELSE [call EXCEPT !.pc = "prepSend"]]
    /\ startBalance' = IF startBalance = Undefined THEN totalBalance(proofs)
                                                     ELSE startBalance
    /\ nOps' = nOps + 1
    /\ now' = now + 1
    /\ UNCHANGED <<bot, seenDb, watcher, proofs, spend_log, nextSecret, tokens, reservations,
                   inputUses, carriedBy>>

\* routstr.ts 28: await props.wallet.sendToken(budgetSats)
PrepareRunSend(c) ==
    /\ calls[c].pc = "prepSend"
    /\ calls' = [calls EXCEPT ![c] = SendEnter(calls[c], calls[c].amountSats, proofs)]
    /\ UNCHANGED <<bot, seenDb, watcher, startBalance, proofs, spend_log, now, nextSecret, tokens, reservations,
                   nOps, inputUses, carriedBy>>

\* ------------------------------------------------------------- receiveToken
\* a throw that finalizeRun does not catch
ThrowUncaught(call, status) ==
    [call EXCEPT !.pc = "done", !.status = status, !.threw = TRUE]

\* how receiveToken's caller sees a throw: finalizeRun catches it and goes on
\* to logSpend with refundSats = 0 (routstr.ts 63-65)
Throw(call, status) ==
    IF call.via = "finalizeRun"
    THEN [call EXCEPT !.pc = "log", !.status = status]
    ELSE [call EXCEPT !.pc = "done", !.status = status, !.threw = TRUE]

\* a token without groups taken as an empty receipt
ReceiveEnterAcceptsEmpty(call0, encodedToken) ==
    LET call == [call0 EXCEPT !.input = encodedToken]
    IN IF ~CanDecode(encodedToken) THEN Throw(call, "InvalidToken")
       ELSE LET tokenData == getDecodedToken(encodedToken).token
            IN IF Len(tokenData) = 0
               THEN [call EXCEPT !.pc = "ret", !.groups = tokenData, !.newProofs = <<>>]
               ELSE [call EXCEPT !.pc = "check", !.groups = tokenData,
                                 !.idx = 1, !.newProofs = <<>>]

\* cashu.ts 202-217: decode, reject a token without groups
ReceiveEnter(call0, encodedToken) ==
    LET call == [call0 EXCEPT !.input = encodedToken]
    IN IF ~CanDecode(encodedToken) THEN Throw(call, "InvalidToken")
       ELSE LET tokenData == getDecodedToken(encodedToken).token
            IN IF Len(tokenData) = 0 THEN Throw(call, "InvalidToken")
               ELSE [call EXCEPT !.pc = "check", !.groups = tokenData,
                                 !.idx = 1, !.newProofs = <<>>]

\* tokens minted outside the wallet (a top-up, the gateway's change): fresh
\* proofs worth amt, 1, 1, ..., as one group of two proofs of this mint, as
\* two groups of which the first names another mint, or as one group of
\* MaxTokenProofs proofs
OtherMint == "other-mint"
TokenShapes == {"pair", "groups"}
FreshPerToken == MaxTokenProofs

ExternalToken(shape, amt, ks, first) ==
    LET amts == [i \in 1 .. MaxTokenProofs |-> IF i = 1 THEN amt ELSE 1]
        ps == StripAll(FreshProofs(amts, IdsFor(ks, MaxTokenProofs), first, mintUrl, 0))
    IN getEncodedToken([token |->
          IF shape = "groups"
          THEN <<[mint |-> OtherMint, proofs |-> <<ps[1]>>],
                 [mint |-> mintUrl, proofs |-> <<ps[2]>>]>>
          ELSE IF shape = "pair"
          THEN <<[mint |-> mintUrl, proofs |-> <<ps[1], ps[2]>>]>>
          ELSE <<[mint |-> mintUrl, proofs |-> ps]>>])

GarbageToken == [prefix |-> "junk", body |-> <<>>]
EmptyToken == getEncodedToken([token |-> <<>>])

ReceiveTokenStart(c, encodedToken, fresh) ==
    /\ CanStart(c)
    /\ calls' = [calls EXCEPT ![c] =
          ReceiveEnter([IdleCall EXCEPT !.op = "receiveToken", !.via = "receiveToken",
                                        !.pre = proofs, !.preLog = Len(spend_log),
                                     !.preRes = reservations],
                       encodedToken)]
    /\ nOps' = nOps + 1
    /\ now' = now + 1
    /\ nextSecret' = nextSecret + fresh
    /\ UNCHANGED <<bot, seenDb, watcher, startBalance, proofs, spend_log, tokens, reservations,
                   inputUses, carriedBy>>

\* saveProofs called whether or not anything was accepted
ShouldSaveAlways(newProofs) == TRUE

\* cashu.ts 257: if (newProofs.length > 0)
ShouldSave(newProofs) == Len(newProofs) > 0

RECURSIVE SelectMask(_, _)
SelectMask(s, mask) ==
    IF s = <<>> THEN <<>>
    ELSE (IF Head(mask) THEN <<Head(s)>> ELSE <<>>) \o SelectMask(Tail(s), Tail(mask))

\* the answer of a mint that honours its contract: the proofs submitted,
\* each with its verdict
HonestAnswer(submitted, mask) ==
    [i \in 1 .. Len(submitted) |->
        [id |-> submitted[i].id, amount |-> submitted[i].amount,
         secret |-> submitted[i].secret, C |-> submitted[i].C, valid |-> mask[i]]]

\* cashu.ts 243: (data.valid ?? []).filter((p) => p.valid)
ValidOf(data) == SelectMask(data, [i \in 1 .. Len(data) |-> data[i].valid])

\* cashu.ts 219-260: POST /check for one group; the proofs pushed to
\* newProofs are the entries of the answer marked valid; after the last
\* group, start saving existing and new proofs when there are new ones
ReceiveCheckData(c, outcome, data) ==
    /\ calls[c].pc = "check"
    /\ LET call == calls[c]
           token == call.groups[call.idx]
           mint == token.mint
           validProofs == IF outcome = "ok" THEN ValidOf(data) ELSE <<>>
           newProofs == call.newProofs \o
               [i \in 1 .. Len(validProofs) |->
                   [id |-> validProofs[i].id, amount |-> validProofs[i].amount,
                    secret |-> validProofs[i].secret, C |-> validProofs[i].C,
                    mint |-> mint, updatedAt |-> now]]
           existingProofs == proofs
           call1 == [call EXCEPT !.reports =
                        Append(call.reports,
                               [outcome |-> outcome,
                                mask |-> [i \in 1 .. Len(data) |-> data[i].valid]])]
       IN calls' = [calls EXCEPT ![c] =
               IF outcome = "throw" THEN Throw(call1, "MintError")
               ELSE IF call.idx < Len(call.groups)
                    THEN [call1 EXCEPT !.idx = call.idx + 1, !.newProofs = newProofs]
               ELSE IF ShouldSave(newProofs)
                    THEN [call1 EXCEPT !.newProofs = newProofs, !.pc = "save", !.idx = 1,
                                       !.saveList = existingProofs \o newProofs,
                                       !.saveTs = now]
               ELSE [call1 EXCEPT !.newProofs = newProofs, !.pc = "ret"]]
    /\ UNCHANGED <<bot, seenDb, watcher, startBalance, proofs, spend_log, now, nextSecret,
                   tokens, reservations, nOps, inputUses, carriedBy>>

\* the check answered by a mint that honours its contract
ReceiveCheck(c, outcome, mask) ==
    /\ calls[c].pc = "check"
    /\ Len(mask) = Len(calls[c].groups[calls[c].idx].proofs)
    /\ outcome # "ok" => \A i \in 1 .. Len(mask) : mask[i]
    /\ ReceiveCheckData(c, outcome,
                        HonestAnswer(calls[c].groups[calls[c].idx].proofs, mask))

\* cashu.ts 262 and, when called by finalizeRun, routstr.ts 56-58
ReceiveReturn(c) ==
    /\ calls[c].pc = "ret"
    /\ calls[c].op = "receiveToken"
    /\ LET call == calls[c]
           receivedSats == totalBalance(call.newProofs)
       IN /\ calls' = [calls EXCEPT ![c] =
                [call EXCEPT !.receivedSats = receivedSats, !.status = "ok",
                             !.refundSats = receivedSats,
                             !.pc = IF call.via = "finalizeRun" THEN "log" ELSE "done"]]
          /\ inputUses' = Reset(inputUses, Secrets(call.newProofs))
          /\ carriedBy' = Reset(carriedBy, Secrets(call.newProofs))
    /\ UNCHANGED <<bot, seenDb, watcher, startBalance, proofs, spend_log, now, nextSecret, tokens, reservations, nOps>>

\* -------------------------------------------------------------- finalizeRun
\* routstr.ts 37-40
FinalizeRunStart(c, env) ==
    /\ CanStart(c)
    /\ env \in reservations
    /\ calls' = [calls EXCEPT ![c] =
          [IdleCall EXCEPT !.op = "receiveToken", !.via = "finalizeRun",
                           !.pc = "refund", !.env = env, !.refundSats = 0,
                           !.pre = proofs, !.preLog = Len(spend_log),
                                     !.preRes = reservations]]
    /\ reservations' = reservations \ {env}
    /\ nOps' = nOps + 1
    /\ now' = now + 1
    /\ UNCHANGED <<bot, seenDb, watcher, startBalance, proofs, spend_log, nextSecret, tokens, inputUses, carriedBy>>

\* routstr.ts 37-40: finalizeRun called once more with the env of a
\* reservation that this caller has already finalized; the provider keeps no
\* record of finalized reservations
FinalizeRunAgain(c) ==
    /\ calls[c].pc = "done"
    /\ calls[c].via = "finalizeRun"
    /\ ~calls[c].again
    /\ Serialized(c)
    /\ calls' = [calls EXCEPT ![c] =
          [IdleCall EXCEPT !.op = "receiveToken", !.via = "finalizeRun",
                           !.pc = "refund", !.env = calls[c].env, !.refundSats = 0,
                           !.pre = proofs, !.preLog = Len(spend_log),
                           !.preRes = reservations, !.again = TRUE]]
    /\ now' = now + 1
    /\ UNCHANGED <<bot, seenDb, watcher, startBalance, proofs, spend_log, nextSecret, tokens, reservations,
                   nOps, inputUses, carriedBy>>

RefundOutcomes == {"402", "token", "notoken", "badjson", "status", "throw"}

\* a failed refund booked as if the whole budget had come back
RefundFailedAssumesFullRefund(call, outcome) ==
    [call EXCEPT !.pc = "log", !.status = outcome, !.gateway = outcome,
                 !.refundSats = ToNum(call.env.ROUTSTR_BUDGET)]

\* routstr.ts 48-49, 55, 60-65: 402, another status, no token in the
\* answer, or a throw of fetch / res.json(): a log line, refundSats stays 0
RefundFailed(call, outcome) ==
    [call EXCEPT !.pc = "log", !.status = outcome, !.gateway = outcome]

\* routstr.ts 42-65: POST /balance/refund and the branches on its answer
FinalizeRunRefund(c, outcome, refundToken, fresh) ==
    /\ calls[c].pc = "refund"
    /\ LET call == calls[c]
       IN calls' = [calls EXCEPT ![c] =
            IF outcome = "token"
            THEN ReceiveEnter([call EXCEPT !.gateway = outcome], refundToken)
            ELSE RefundFailed(call, outcome)]
    /\ nextSecret' = nextSecret + (IF outcome = "token" THEN fresh ELSE 0)
    /\ UNCHANGED <<bot, seenDb, watcher, startBalance, proofs, spend_log, now, tokens, reservations,
                   nOps, inputUses, carriedBy>>

\* the difference taken without the clamp at 0
MaxUnclamped(a, b) == b

\* routstr.ts 67: Math.max
Max(a, b) == IF a >= b THEN a ELSE b

\* the table holding the latest run only
logSpendKeepsLatest(log, provider, budgetSats, refundSats, spentSats) ==
    <<[ts |-> now, provider |-> provider, budget_sats |-> budgetSats,
       refund_sats |-> refundSats, spent_sats |-> spentSats]>>

\* wallet-db.ts 136-160: one INSERT INTO spend_log
logSpend(log, provider, budgetSats, refundSats, spentSats) ==
    Append(log, [ts |-> now, provider |-> provider, budget_sats |-> budgetSats,
                 refund_sats |-> refundSats, spent_sats |-> spentSats])

\* routstr.ts 67-78
FinalizeRunLog(c) ==
    /\ calls[c].pc = "log"
    /\ LET call == calls[c]
           budgetSats == ToNum(call.env.ROUTSTR_BUDGET)
           refundSats == call.refundSats
           spentSats == Max(0, budgetSats - refundSats)
       IN /\ spend_log' = logSpend(spend_log, "routstr", budgetSats, refundSats, spentSats)
          /\ calls' = [calls EXCEPT ![c] = [call EXCEPT !.pc = "done"]]
    /\ UNCHANGED <<bot, seenDb, watcher, startBalance, proofs, now, nextSecret, tokens, reservations,
                   nOps, inputUses, carriedBy>>

\* --------------------------------------------------------------- the process
\* the bot process stops (is killed, crashes) while a call is in flight
StopProcess(c) ==
    /\ ~Settled(c)
    /\ calls' = [calls EXCEPT ![c] = [calls[c] EXCEPT !.pc = "stopped", !.at = calls[c].pc]]
    /\ UNCHANGED <<bot, seenDb, watcher, startBalance, proofs, spend_log, now, nextSecret, tokens, reservations,
                   nOps, inputUses, carriedBy>>

\* ------------------------------------------------------ getInfo, getStatus
\* the number of stored proofs reported in place of their sum
getInfoCountsProofs(table) == [balanceSats |-> Len(table)]

\* cashu.ts 140-144: loadProofs and totalBalance
getInfo(table) == [balanceSats |-> totalBalance(table)]

\* routstr.ts 81-85: `routstr | wallet: N sats | base: URL`
getStatus(table) ==
    [provider |-> "routstr", balanceSats |-> getInfo(table).balanceSats, base |-> baseUrl]

\* commands.ts 436-440: wallet balance
GetInfo(c) ==
    /\ calls[c].pc \in {"idle", "done"}
    /\ Serialized(c)
    /\ calls' = [calls EXCEPT ![c] =
          [IdleCall EXCEPT !.op = "getInfo", !.via = "getInfo", !.pc = "done",
                           !.status = "ok",
                           !.info = [NoInfo EXCEPT !.balanceSats = getInfo(proofs).balanceSats],
                           !.pre = proofs, !.preLog = Len(spend_log),
                           !.preRes = reservations]]
    /\ UNCHANGED <<bot, seenDb, watcher, startBalance, proofs, spend_log, now, nextSecret, tokens, reservations,
                   nOps, inputUses, carriedBy>>

\* commands.ts 513-517: provider status
GetStatus(c) ==
    /\ calls[c].pc \in {"idle", "done"}
    /\ Serialized(c)
    /\ calls' = [calls EXCEPT ![c] =
          [IdleCall EXCEPT !.op = "getStatus", !.via = "getStatus", !.pc = "done",
                           !.status = "ok", !.info = getStatus(proofs),
                           !.pre = proofs, !.preLog = Len(spend_log),
                           !.preRes = reservations]]
    /\ UNCHANGED <<bot, seenDb, watcher, startBalance, proofs, spend_log, now, nextSecret, tokens, reservations,
                   nOps, inputUses, carriedBy>>

\* wallet-db.ts 162-190: SELECT ... ORDER BY ts DESC LIMIT $limit
HistoryLimit == 10
getRecentSpendHistory(log, limit) ==
    LET n == IF Len(log) < limit THEN Len(log) ELSE limit
    IN [i \in 1 .. n |-> log[Len(log) + 1 - i]]

\* commands.ts 458-472: wallet history
WalletHistory(c) ==
    /\ calls[c].pc \in {"idle", "done"}
    /\ Serialized(c)
    /\ calls' = [calls EXCEPT ![c] =
          [IdleCall EXCEPT !.op = "history", !.via = "history", !.pc = "done",
                           !.status = "ok",
                           !.history = getRecentSpendHistory(spend_log, HistoryLimit),
                           !.pre = proofs, !.preLog = Len(spend_log),
                           !.preRes = reservations]]
    /\ UNCHANGED <<bot, seenDb, watcher, startBalance, proofs, spend_log, now, nextSecret, tokens, reservations,
                   nOps, inputUses, carriedBy>>

\* ------------------------------------------------------- the Local provider
\* an environment that announces the budget
localPrepareRunWithBudget(budgetSats) ==
    [ROUTSTR_TOKEN |-> NoToken, ROUTSTR_BUDGET |-> ToStr(budgetSats + 1)]

\* local.ts 7-9: return {} (no variable set)
localPrepareRun(budgetSats) == NoEnv

\* the variables an environment sets
EnvKeys(env) ==
    IF env = NoEnv THEN {} ELSE {"ROUTSTR_TOKEN", "ROUTSTR_BUDGET", "ROUTSTR_API_KEY"}

\* local.ts 7-9
LocalPrepareRun(c, optBudget) ==
    /\ calls[c].pc \in {"idle", "done"}
    /\ Serialized(c)
    /\ calls' = [calls EXCEPT ![c] =
          [IdleCall EXCEPT !.op = "prepareRun", !.via = "local.prepareRun", !.pc = "done",
                           !.status = "ok", !.amountSats = optBudget,
                           !.result = localPrepareRun(optBudget),
                           !.pre = proofs, !.preLog = Len(spend_log),
                           !.preRes = reservations]]
    /\ UNCHANGED <<bot, seenDb, watcher, startBalance, proofs, spend_log, now, nextSecret, tokens, reservations,
                   nOps, inputUses, carriedBy>>

\* local.ts 11-13
LocalFinalizeRun(c, env) ==
    /\ calls[c].pc \in {"idle", "done"}
    /\ Serialized(c)
    /\ calls' = [calls EXCEPT ![c] =
          [IdleCall EXCEPT !.op = "finalizeRun", !.via = "local.finalizeRun", !.pc = "done",
                           !.status = "ok", !.env = env,
                           !.pre = proofs, !.preLog = Len(spend_log),
                           !.preRes = reservations]]
    /\ UNCHANGED <<bot, seenDb, watcher, startBalance, proofs, spend_log, now, nextSecret, tokens, reservations,
                   nOps, inputUses, carriedBy>>

\* ------------------------------------------------- the metered run's caller
\* part_001 364-394 (Phase 4: wiring into handleUserMessage): prepareRun,
\* then runAgentRound and the reply inside try, finalizeRun at the end of the
\* try block and in the catch block.  providerEnv is a local of the handler.

\* part_001 371-382: a message arrives and its handler calls prepareRun; the
\* handler of the message before it has returned
HandleMessage(c, budgetSats) ==
    /\ ~(calls[c].via = "prepareRun" /\ calls[c].pc = "done" /\ calls[c].status = "ok")
    /\ PrepareRunStart(c, budgetSats)

\* part_001 386-388: runAgentRound and the sending of the reply end, with a
\* result or by throwing
RunAgentRound(c, ok) ==
    /\ calls[c].pc = "done"
    /\ calls[c].via = "prepareRun"
    /\ calls[c].status = "ok"
    /\ calls[c].run = "none"
    /\ calls' = [calls EXCEPT ![c] =
          [calls[c] EXCEPT !.run = IF ok THEN "success" ELSE "error"]]
    /\ UNCHANGED <<bot, seenDb, watcher, startBalance, proofs, spend_log, now, nextSecret, tokens, reservations,
                   nOps, inputUses, carriedBy>>

\* part_001 389, 391: provider.finalizeRun(providerEnv, ...) at the end of
\* try (success) and in catch (error)
HandlerFinalize(c) ==
    /\ calls[c].pc = "done"
    /\ calls[c].via = "prepareRun"
    /\ calls[c].run \in {"success", "error"}
    /\ LET env == calls[c].result
       IN /\ calls' = [calls EXCEPT ![c] =
                [IdleCall EXCEPT !.op = "receiveToken", !.via = "finalizeRun",
                                 !.pc = "refund", !.env = env, !.refundSats = 0,
                                 !.pre = proofs, !.preLog = Len(spend_log),
                                 !.preRes = reservations, !.run = calls[c].run]]
          /\ reservations' = reservations \ {env}
    /\ now' = now + 1
    /\ UNCHANGED <<bot, seenDb, watcher, startBalance, proofs, spend_log, nextSecret, tokens,
                   nOps, inputUses, carriedBy>>

\* index.ts 218-234: the exit command, handled while a run may be in flight
\* (index.ts 419-448: every incoming DM gets its own handler), ends the
\* process: process.exit(0)
ExitCommand(c) ==
    /\ calls[c].pc # "stopped"
    /\ calls' = [calls EXCEPT ![c] = [calls[c] EXCEPT !.pc = "stopped", !.at = calls[c].pc]]
    /\ UNCHANGED <<bot, seenDb, watcher, startBalance, proofs, spend_log, now, nextSecret, tokens, reservations,
                   nOps, inputUses, carriedBy>>

ExternalTokens ==
    {ExternalToken(shape, amt, ks, nextSecret) :
        shape \in TokenShapes, amt \in Amounts, ks \in KeysetChoices}

\* top-ups of MaxTokenProofs proofs in one group
LargeTokens ==
    {ExternalToken("large", amt, ks, nextSecret) :
        amt \in Amounts, ks \in KeysetChoices}

CheckOutcomes == {"ok", "notok", "throw"}
Masks == UNION {[1 .. n -> BOOLEAN] : n \in 1 .. MaxTokenProofs}

\* the steps of a sendToken in flight
SendSteps(c) ==
    \/ \E ok \in BOOLEAN : SendGetKeyset(c, ok)
    \/ \E ok \in BOOLEAN :
         \E keepAmts \in Decomp(totalBalance(calls[c].selected) - calls[c].amountSats) :
           \E sendAmts \in Decomp(calls[c].amountSats) :
             \E ks \in KeysetChoices :
               SendSplit(c, ok, keepAmts, sendAmts, ks)
    \/ SendDeleteRow(c)
    \/ SendReturn(c)

\* the steps of a receiveToken in flight
ReceiveSteps(c) ==
    \/ \E outcome \in CheckOutcomes : \E mask \in Masks : ReceiveCheck(c, outcome, mask)
    \/ ReceiveReturn(c)

\* the wallet called directly (commands.ts 437-450, the AnyWallet interface)
Next ==
    \E c \in Callers :
        \/ \E amountSats \in SendAmounts : SendTokenStart(c, amountSats)
        \/ \E t \in tokens \cup {GarbageToken, EmptyToken} : ReceiveTokenStart(c, t, 0)
        \/ \E t \in ExternalTokens : ReceiveTokenStart(c, t, FreshPerToken)
        \/ SendSteps(c)
        \/ ReceiveSteps(c)
        \/ SaveRow(c)
        \/ StopProcess(c)

Spec == Init /\ [][Next]_vars

\* the wallet called through the Routstr provider: prepareRun / finalizeRun
NextProvider ==
    \E c \in Callers :
        \/ \E b \in SendAmounts \cup {Undefined} : PrepareRunStart(c, b)
        \/ PrepareRunSend(c)
        \/ \E env \in reservations : FinalizeRunStart(c, env)
        \/ \E outcome \in RefundOutcomes :
             \E t \in ExternalTokens \cup {GarbageToken} :
               FinalizeRunRefund(c, outcome, t, FreshPerToken)
        \/ FinalizeRunLog(c)
        \/ SendSteps(c)
        \/ ReceiveSteps(c)
        \/ SaveRow(c)
        \/ StopProcess(c)

SpecProvider == Init /\ [][NextProvider]_vars

\* the provider with a caller that may repeat finalizeRun for a reservation
\* (the gateway's change is undecodable or two 1-sat proofs)
ChangeTokens == {GarbageToken, ExternalToken("pair", 1, 0, nextSecret)}

NextRefinalize ==
    \E c \in Callers :
        \/ \E b \in SendAmounts \cup {Undefined} : PrepareRunStart(c, b)
        \/ PrepareRunSend(c)
        \/ \E env \in reservations : FinalizeRunStart(c, env)
        \/ FinalizeRunAgain(c)
        \/ \E outcome \in RefundOutcomes :
             \E t \in ChangeTokens :
               FinalizeRunRefund(c, outcome, t, FreshPerToken)
        \/ FinalizeRunLog(c)
        \/ SendSteps(c)
        \/ ReceiveSteps(c)
        \/ SaveRow(c)

SpecRefinalize == Init /\ [][NextRefinalize]_vars

\* the Routstr provider with the balance and the status read in between
NextRead ==
    \/ NextRefinalize
    \/ \E c \in Callers : GetInfo(c)
    \/ \E c \in Callers : GetStatus(c)
    \/ \E c \in Callers : WalletHistory(c)

SpecRead == Init /\ [][NextRead]_vars

\* the Local provider used on a wallet that the Routstr provider also uses
NextLocal ==
    \/ NextRefinalize
    \/ \E c \in Callers :
         \E b \in SendAmounts \cup {Undefined, DefaultBudgetSats} : LocalPrepareRun(c, b)
    \/ \E c \in Callers : \E env \in reservations \cup {NoEnv} : LocalFinalizeRun(c, env)

SpecLocal == Init /\ [][NextLocal]_vars

\* the provider driven by the message handler of part_001 364-394
NextRun ==
    \E c \in Callers :
        \/ \E b \in SendAmounts \cup {Undefined} : HandleMessage(c, b)
        \/ PrepareRunSend(c)
        \/ \E ok \in BOOLEAN : RunAgentRound(c, ok)
        \/ HandlerFinalize(c)
        \/ \E outcome \in RefundOutcomes :
             \E t \in ChangeTokens :
               FinalizeRunRefund(c, outcome, t, FreshPerToken)
        \/ FinalizeRunLog(c)
        \/ SendSteps(c)
        \/ ReceiveSteps(c)
        \/ SaveRow(c)
        \/ ExitCommand(c)

SpecRun == Init /\ [][NextRun]_vars

\* tokens received into the ledger (commands.ts 445-450: wallet receive)
NextReceive ==
    \E c \in Callers :
        \/ /\ nOps < MaxReceives
           /\ \/ \E t \in {GarbageToken, EmptyToken} : ReceiveTokenStart(c, t, 0)
              \/ \E t \in ExternalTokens \cup LargeTokens :
                   ReceiveTokenStart(c, t, FreshPerToken)
        \/ ReceiveSteps(c)
        \/ SaveRow(c)
        \/ StopProcess(c)

SpecReceive == Init /\ [][NextReceive]_vars

\* receiveToken with a mint whose /check answer is not bound to the request:
\* besides the verdicts on the proofs submitted, an answer without entries,
\* one whose first entry states a larger amount, and one with an entry for
\* a proof that was not submitted
ForeignSecret == 0
Answers(submitted) ==
    {HonestAnswer(submitted, mask) : mask \in [1 .. Len(submitted) -> BOOLEAN]}
    \cup {<<>>}
    \cup {[i \in 1 .. Len(submitted) |->
             [id |-> submitted[i].id,
              amount |-> submitted[i].amount + (IF i = 1 THEN 1 ELSE 0),
              secret |-> submitted[i].secret, C |-> submitted[i].C, valid |-> TRUE]]}
    \cup {Append(HonestAnswer(submitted, [i \in 1 .. Len(submitted) |-> TRUE]),
                 [id |-> 1, amount |-> 1, secret |-> ForeignSecret,
                  C |-> SigOf(ForeignSecret), valid |-> TRUE])}

NextCheck ==
    \E c \in Callers :
        \/ /\ nOps < MaxReceives
           /\ \E t \in ExternalTokens : ReceiveTokenStart(c, t, FreshPerToken)
        \/ /\ calls[c].pc = "check"
           /\ \E outcome \in CheckOutcomes :
                \E data \in Answers(calls[c].groups[calls[c].idx].proofs) :
                  /\ outcome # "ok" => data = <<>>
                  /\ ReceiveCheckData(c, outcome, data)
        \/ ReceiveReturn(c)
        \/ SaveRow(c)

SpecCheck == Init /\ [][NextCheck]_vars

\* the two calls that take funds out of the ledger: sendToken and prepareRun
NextDebit ==
    \E c \in Callers :
        \/ \E amountSats \in SendAmounts : SendTokenStart(c, amountSats)
        \/ \E b \in SendAmounts \cup {Undefined} : PrepareRunStart(c, b)
        \/ PrepareRunSend(c)
        \/ SendSteps(c)
        \/ SaveRow(c)
        \/ StopProcess(c)

SpecDebit == Init /\ [][NextDebit]_vars

\* ------------------------------------------------ two sendToken calls at once
\* two DMs handled at the same time (index.ts 419-448: onevent awaits
\* handleUserMessage, the pool does not wait for it), each calling sendToken
\* once
Contenders == {1, 2}

InitPair ==
    /\ proofs \in InitLedgers
    /\ spend_log = <<>>
    /\ now = 0
    /\ nextSecret = NumKeysets + 1
    /\ calls = [c \in Contenders |-> IdleCall]
    /\ tokens = {}
    /\ reservations = {}
    /\ nOps = 0
    /\ inputUses = [s \in {} |-> 0]
    /\ carriedBy = [s \in {} |-> 0]
    /\ startBalance = Undefined
    /\ watcher = NoWatcher
    /\ seenDb = EmptyDb
    /\ bot = IdleBot

\* a call yields only at its awaits (cashu.ts 154 and 173): from deleteProofs
\* to the return it runs without another call taking a step
InTurn(c) == \A d \in (DOMAIN calls) \ {c} : calls[d].pc \notin {"delete", "save", "ret"}

\* sendToken entered while another call is waiting for the mint: nothing in
\* cashu.ts 146-152 waits for it
SendTokenOverlap(c, amountSats) ==
    /\ calls[c].pc \in {"idle", "done"}
    /\ ~Serialized(c)
    /\ nOps < MaxOps
    /\ calls' = [calls EXCEPT ![c] =
          SendEnter([IdleCall EXCEPT !.op = "sendToken", !.via = "sendToken",
                                     !.pre = proofs, !.preLog = Len(spend_log),
                                     !.preRes = reservations, !.overlapped = TRUE],
                    amountSats, proofs)]
    /\ nOps' = nOps + 1
    /\ now' = now + 1
    /\ UNCHANGED <<bot, seenDb, watcher, startBalance, proofs, spend_log, nextSecret, tokens, reservations,
                   inputUses, carriedBy>>

\* secrets the mint has already swapped for another call; it answers a
\* second /split of one of them with an error status (cashu.ts 95-97)
MintSpent(c) ==
    UNION {Secrets(calls[d].selected) :
             d \in {e \in (DOMAIN calls) \ {c} :
                      /\ calls[e].pc \in {"delete", "save", "ret", "done"}
                      /\ calls[e].status # "MintError"
                      /\ totalBalance(calls[e].selected) > calls[e].amountSats}}

NextPair ==
    \E c \in Contenders :
        /\ InTurn(c)
        /\ \/ \E amountSats \in SendAmounts :
                calls[c].pc = "idle" /\ SendTokenStart(c, amountSats)
           \/ \E amountSats \in SendAmounts :
                calls[c].pc = "idle" /\ SendTokenOverlap(c, amountSats)
           \/ \E ok \in BOOLEAN : SendGetKeyset(c, ok)
           \/ \E ok \in BOOLEAN :
                \E keepAmts \in Decomp(totalBalance(calls[c].selected) - calls[c].amountSats) :
                  \E sendAmts \in Decomp(calls[c].amountSats) :
                    \E ks \in KeysetChoices :
                      /\ ok => Secrets(calls[c].selected) \cap MintSpent(c) = {}
                      /\ SendSplit(c, ok, keepAmts, sendAmts, ks)
           \/ SendDeleteRow(c)
           \/ SaveRow(c)
           \/ SendReturn(c)

SpecPair == InitPair /\ [][NextPair]_vars

\* ------------------------------------------------------- the bot's DM handler
masterPubkey == "master"
OtherPubkey == "stranger"
DmKind == 14
OtherKind == 15
Contents == {"!exit", "!help", "hello"}
Transports == {"remote", "local"}

Wraps ==
    [id : {nOps + 1}, unwraps : BOOLEAN, pubkey : {masterPubkey, OtherPubkey},
     kind : {DmKind, OtherKind}, content : Contents]

InitBot ==
    /\ proofs = <<>>
    /\ spend_log = <<>>
    /\ now = 0
    /\ nextSecret = NumKeysets + 1
    /\ calls = [c \in Callers |-> IdleCall]
    /\ tokens = {}
    /\ reservations = {}
    /\ nOps = 0
    /\ inputUses = [s \in {} |-> 0]
    /\ carriedBy = [s \in {} |-> 0]
    /\ startBalance = Undefined
    /\ watcher = NoWatcher
    /\ seenDb = EmptyDb
    /\ bot = IdleBot

\* onevent without the comparison with the master pubkey
oneventAnySender(call, wrap, transport) ==
    LET c1 == [call EXCEPT !.event = wrap, !.source = "nostr", !.content = ""]
    IN IF ~wrap.unwraps THEN [c1 EXCEPT !.pc = "done", !.status = "unwrapFailed"]
       ELSE IF wrap.kind # DmKind
       THEN [c1 EXCEPT !.pc = "done", !.status = "ignored"]
       ELSE IF transport = "local"
       THEN [c1 EXCEPT !.pc = "done", !.status = "ignored",
                       !.seen = call.seen \cup {wrap.id}]
       ELSE [c1 EXCEPT !.pc = "message", !.status = "", !.content = wrap.content,
                       !.seen = call.seen \cup {wrap.id}]

\* index.ts 419-451: unwrap (a throw is caught and logged), drop a rumor
\* that is not the master's or not kind 14, drop it (marked seen) while the
\* reply transport is local, else mark it seen and handle its content
onevent(call, wrap, transport) ==
    LET c1 == [call EXCEPT !.event = wrap, !.source = "nostr", !.content = ""]
    IN IF ~wrap.unwraps THEN [c1 EXCEPT !.pc = "done", !.status = "unwrapFailed"]
       ELSE IF wrap.pubkey # masterPubkey
       THEN [c1 EXCEPT !.pc = "done", !.status = "ignored"]
       ELSE IF wrap.kind # DmKind
       THEN [c1 EXCEPT !.pc = "done", !.status = "ignored"]
       ELSE IF transport = "local"
       THEN [c1 EXCEPT !.pc = "done", !.status = "ignored",
                       !.seen = call.seen \cup {wrap.id}]
       ELSE [c1 EXCEPT !.pc = "message", !.status = "", !.content = wrap.content,
                       !.seen = call.seen \cup {wrap.id}]

OnEvent(c, wrap, transport) ==
    /\ calls[c].pc \in {"idle", "done"}
    /\ nOps < MaxOps
    /\ calls' = [calls EXCEPT ![c] = onevent(calls[c], wrap, transport)]
    /\ nOps' = nOps + 1
    /\ UNCHANGED <<bot, seenDb, watcher, startBalance, proofs, spend_log, now, nextSecret, tokens, reservations,
                   inputUses, carriedBy>>

\* index.ts 392-399: a line typed at the local prompt
LocalLine(c, content) ==
    /\ calls[c].pc \in {"idle", "done"}
    /\ nOps < MaxOps
    /\ calls' = [calls EXCEPT ![c] =
          [calls[c] EXCEPT !.event = NoEvent, !.source = "local", !.content = content,
                           !.pc = "message", !.status = ""]]
    /\ nOps' = nOps + 1
    /\ UNCHANGED <<bot, seenDb, watcher, startBalance, proofs, spend_log, now, nextSecret, tokens, reservations,
                   inputUses, carriedBy>>

\* index.ts 209-370: a bang command is executed and answered (the exit
\* command ends the process after its acknowledgement); anything else
\* starts an agent run whose output is sent as the reply
HandleUserMessage(c) ==
    /\ calls[c].pc = "message"
    /\ LET call == calls[c]
       IN calls' = [calls EXCEPT ![c] =
            IF call.content = "!exit"
            THEN [call EXCEPT !.commands = call.commands + 1,
                              !.replies = call.replies + 1,
                              !.pc = "stopped", !.at = "message", !.status = "exit"]
            ELSE IF call.content = "!help"
            THEN [call EXCEPT !.commands = call.commands + 1,
                              !.replies = call.replies + 1,
                              !.pc = "done", !.status = "command"]
            ELSE [call EXCEPT !.agentRuns = call.agentRuns + 1,
                              !.replies = call.replies + 1,
                              !.pc = "done", !.status = "agent"]]
    /\ UNCHANGED <<bot, seenDb, watcher, startBalance, proofs, spend_log, now, nextSecret, tokens, reservations,
                   nOps, inputUses, carriedBy>>

NextBot ==
    \E c \in Callers :
        \/ \E wrap \in Wraps : \E transport \in Transports : OnEvent(c, wrap, transport)
        \/ \E content \in Contents : LocalLine(c, content)
        \/ HandleUserMessage(c)

SpecBot == InitBot /\ [][NextBot]_vars

\* ------------------------------------------------------------ budget setting
\* Number(v) of z.coerce.number(): 0 for null, the number a numeric string
\* spells, NaN otherwise
NotANumber == 0 - 2
CoerceNumber(v) == IF v = Null THEN 0 ELSE ToNum(v)

\* db.ts getRoutstrBudget (part_004 327-336): the default only when the
\* coerced value does not parse as a number
getRoutstrBudget(db) ==
    LET parsed == CoerceNumber(db.budget)
    IN IF parsed = NotANumber THEN DefaultBudgetSats ELSE parsed

\* db.ts setRoutstrBudget (part_004 338-340)
setRoutstrBudget(db, budgetSats) == [db EXCEPT !.budget = ToStr(budgetSats)]

\* what parseInt(args[1], 10) gives for the argument of !provider budget
BudgetArgs == {NotANumber, 0, 1, MaxAmount, DefaultBudgetSats}

\* commands.ts 501-511: !provider budget <sats> stores a positive number,
\* anything else is answered with the current budget
ProviderBudget(c, budget) ==
    /\ CanStart(c)
    /\ IF budget = NotANumber \/ budget <= 0
       THEN /\ calls' = [calls EXCEPT ![c] =
                  [IdleCall EXCEPT !.op = "provider.budget", !.via = "provider.budget",
                                   !.pc = "done", !.status = "ok",
                                   !.amountSats = getRoutstrBudget(seenDb),
                                   !.unset = (seenDb.budget = Null),
                                   !.pre = proofs, !.preLog = Len(spend_log),
                                   !.preRes = reservations]]
            /\ UNCHANGED seenDb
       ELSE /\ calls' = [calls EXCEPT ![c] =
                  [IdleCall EXCEPT !.op = "provider.budget", !.via = "provider.setBudget",
                                   !.pc = "done", !.status = "ok", !.amountSats = budget,
                                   !.pre = proofs, !.preLog = Len(spend_log),
                                   !.preRes = reservations]]
            /\ seenDb' = setRoutstrBudget(seenDb, budget)
    /\ nOps' = nOps + 1
    /\ UNCHANGED <<bot, watcher, startBalance, proofs, spend_log, now, nextSecret, tokens,
                   reservations, inputUses, carriedBy>>

NextSettings ==
    \E c \in Callers :
        \/ \E budget \in BudgetArgs : ProviderBudget(c, budget)
        \/ PrepareRunStart(c, getRoutstrBudget(seenDb))
        \/ PrepareRunStart(c, Undefined)
        \/ PrepareRunSend(c)
        \/ SendSteps(c)
        \/ SaveRow(c)

SpecSettings == Init /\ [][NextSettings]_vars

\* ----------------------------------------------------- handlers in flight
BotUnchanged ==
    UNCHANGED <<proofs, spend_log, now, nextSecret, calls, tokens, reservations,
                nOps, inputUses, carriedBy, startBalance, watcher, seenDb>>

\* index.ts 389-396: a non-empty line is chained onto localQueue
LineEntered ==
    /\ bot.lines < MaxLines
    /\ bot' = [bot EXCEPT !.lines = bot.lines + 1,
                          !.queue = Append(bot.queue, bot.lines + 1)]
    /\ BotUnchanged

\* a chain whose rejection nobody catches
localNoCatch(ok) == IF ok THEN "resolved" ELSE "rejected"

\* index.ts 399: .catch(...) logs a rejection, the chain goes on resolved
localCatch(ok) == "resolved"

\* index.ts 397-398: localQueue.then(() => handleUserMessage(input, 'local')):
\* the callback of the next line runs once the chain before it has settled,
\* and only if it settled resolved
LocalNext ==
    /\ bot.queue # <<>>
    /\ bot.local = {}
    /\ LET id == Head(bot.queue)
       IN bot' = IF bot.chain = "rejected"
                 THEN [bot EXCEPT !.queue = Tail(bot.queue),
                                  !.skipped = bot.skipped \cup {id}]
                 ELSE [bot EXCEPT !.queue = Tail(bot.queue), !.local = {id},
                                  !.order = Append(bot.order, id),
                                  !.chain = "pending"]
    /\ BotUnchanged

\* index.ts 209-370: the handler of a local line settles, resolved or
\* (a reply that cannot be sent, 232-236) rejected
LocalSettle(ok) ==
    /\ bot.local # {}
    /\ bot' = [bot EXCEPT !.local = {},
                          !.settled = bot.settled \cup bot.local,
                          !.threw = IF ok THEN bot.threw ELSE bot.threw \cup bot.local,
                          !.chain = localCatch(ok)]
    /\ BotUnchanged

\* index.ts 419-448: onevent reaches await handleUserMessage(content,
\* 'nostr') for an accepted DM; nothing makes it wait for another handler
NostrAccepted ==
    /\ bot.events < MaxEvents
    /\ bot' = [bot EXCEPT !.events = bot.events + 1,
                          !.nostr = bot.nostr \cup {bot.events + 1}]
    /\ BotUnchanged

NostrSettle(id) ==
    /\ id \in bot.nostr
    /\ bot' = [bot EXCEPT !.nostr = bot.nostr \ {id},
                          !.nostrSettled = bot.nostrSettled \cup {id}]
    /\ BotUnchanged

NextHandlers ==
    \/ LineEntered
    \/ LocalNext
    \/ \E ok \in BOOLEAN : LocalSettle(ok)
    \/ NostrAccepted
    \/ \E id \in 1 .. MaxEvents : NostrSettle(id)

SpecHandlers == InitBot /\ [][NextHandlers]_vars

\* ------------------------------------------------------------- seen events
\* a text value of the state table
Str(t) == [text |-> t]

\* db.ts getReplyTransport (part_004 285-289): 'remote' unless 'local' is stored
getReplyTransport(db) == IF db.transport = Str("local") THEN "local" ELSE "remote"

\* db.ts setReplyTransport (part_004 291-293)
setReplyTransport(db, transport) == [db EXCEPT !.transport = Str(transport)]

\* db.ts alreadyHaveEvent (part_004 226-230)
alreadyHaveEvent(db, id) == id \in db.seen

\* an INSERT that never reaches the table
markSeenNowhere(db, id) == db

\* db.ts markSeen (part_004 232-234): INSERT OR IGNORE INTO seen_events
markSeen(db, id) == [db EXCEPT !.seen = db.seen \cup {id}]

\* gift wraps addressed to the bot: some from the master, some not
WrapIds == [n : 1 .. MaxEvents, master : BOOLEAN, kind : {DmKind, OtherKind}]

\* index.ts 416-451: a relay delivers a wrap; the subscription drops it when
\* alreadyHaveEvent says so, else onevent runs up to its first await: a
\* rumor of somebody else or of another kind returns, with the local reply transport the
\* wrap is marked seen and dropped, else it is marked seen and
\* handleUserMessage is called
Deliver(wrap) ==
    /\ IF alreadyHaveEvent(seenDb, wrap)
       THEN /\ bot' = [bot EXCEPT !.dropped = bot.dropped \cup {wrap}]
            /\ UNCHANGED seenDb
       ELSE IF ~wrap.master \/ wrap.kind # DmKind
       THEN UNCHANGED <<bot, seenDb>>
       ELSE IF getReplyTransport(seenDb) = "local"
       THEN /\ seenDb' = markSeen(seenDb, wrap)
            /\ bot' = [bot EXCEPT !.ignoredLocal = bot.ignoredLocal \cup {wrap}]
       ELSE /\ seenDb' = markSeen(seenDb, wrap)
            /\ bot' = [bot EXCEPT !.nostr = bot.nostr \cup {wrap},
                                  !.handled = Append(bot.handled, wrap)]
    /\ UNCHANGED <<proofs, spend_log, now, nextSecret, calls, tokens, reservations,
                   nOps, inputUses, carriedBy, startBalance, watcher>>

\* the handler of a delivered DM settles
DeliveredSettle(wrap) ==
    /\ wrap \in bot.nostr
    /\ bot' = [bot EXCEPT !.nostr = bot.nostr \ {wrap}]
    /\ BotUnchanged

\* commands.ts 261-271: !local and !remote
SetTransport(transport) ==
    /\ seenDb' = setReplyTransport(seenDb, transport)
    /\ UNCHANGED <<proofs, spend_log, now, nextSecret, calls, tokens, reservations,
                   nOps, inputUses, carriedBy, startBalance, watcher, bot>>

\* the bot process ends and is started again: the handlers in flight are
\* gone, the database file stays, the relays replay the last two days
\* (index.ts 180-184)
BotRestart ==
    /\ bot.starts < MaxStarts
    /\ bot' = [bot EXCEPT !.starts = bot.starts + 1, !.nostr = {}]
    /\ BotUnchanged

NextSeen ==
    \/ \E wrap \in WrapIds : Deliver(wrap)
    \/ \E wrap \in WrapIds : DeliveredSettle(wrap)
    \/ \E transport \in Transports : SetTransport(transport)
    \/ BotRestart

SpecSeen == InitBot /\ [][NextSeen]_vars

\* ----------------------------------------------------------------- sessions
\* db.ts AgentBackendNameSchema (part_004 164)
BackendNames == {"cursor", "opencode"}

\* db.ts WorkspaceTargetSchema (part_004 173)
WorkspaceTargets == {"parent", "bot"}

\* db.ts getAgentBackend (part_004 275-279): 'cursor' unless stored
getAgentBackend(db) == IF db.backend = Str("opencode") THEN "opencode" ELSE "cursor"

\* db.ts setAgentBackend (part_004 281-283)
setAgentBackend(db, backend) == [db EXCEPT !.backend = Str(backend)]

\* db.ts getWorkspaceTarget (part_004 295-299): 'parent' unless stored
getWorkspaceTarget(db) == IF db.workspace = Str("bot") THEN "bot" ELSE "parent"

\* db.ts setWorkspaceTarget (part_004 301-303)
setWorkspaceTarget(db, target) == [db EXCEPT !.workspace = Str(target)]

\* the ids the CLI of a backend hands out (publish-10050.sh 137-156 for
\* cursor, factory.ts 163-185 for opencode): each CLI names its own sessions
SessionIds(backendName) == [backend : {backendName}, n : 1 .. MaxSessions]
AllSessionIds == UNION {SessionIds(b) : b \in BackendNames}

\* SELECT 1 FROM sessions WHERE id = ?  (session.ts 88)
sessionExists(db, id) == \E i \in 1 .. Len(db.sessions) : db.sessions[i].id = id

\* the lookup without its backend column
existsAnyBackend(db, id, backendName) == sessionExists(db, id)

\* SELECT 1 FROM sessions WHERE id = ? AND backend = ?  (session.ts 75-77)
existsForBackend(db, id, backendName) ==
    \E i \in 1 .. Len(db.sessions) :
        db.sessions[i].id = id /\ db.sessions[i].backend = backendName

\* session.ts createNewSession 19-41 once the CLI has answered id: INSERT OR
\* IGNORE keeps a row that has the id already, then the id becomes current
createNewSession(db, backendName, id) ==
    [db EXCEPT !.sessions = IF sessionExists(db, id) THEN @
                            ELSE Append(@, [id |-> id, backend |-> backendName]),
               !.current = id]

\* session.ts getLatestSession 43-49: the newest row of the backend, or null
getLatestSession(db, backendName) ==
    LET own == {i \in 1 .. Len(db.sessions) : db.sessions[i].backend = backendName}
    IN  IF own = {} THEN Null
        ELSE db.sessions[CHOOSE i \in own : \A j \in own : j <= i].id

\* session.ts setCurrentSession 87-97: any row will do, whatever its backend
setCurrentSession(db, sessionId) ==
    IF sessionExists(db, sessionId) THEN [db EXCEPT !.current = sessionId] ELSE db

SessionUnchanged ==
    UNCHANGED <<proofs, spend_log, now, nextSecret, calls, tokens, reservations,
                nOps, inputUses, carriedBy, startBalance, watcher>>

\* a command is being served, no message
Command == [bot EXCEPT !.returned = Null]

\* commands.ts 138-156: !new-session; the CLI answers an id or fails
NewSessionCmd(ok, id) ==
    /\ id \in SessionIds(getAgentBackend(seenDb))
    /\ seenDb' = IF ok THEN createNewSession(seenDb, getAgentBackend(seenDb), id)
                 ELSE seenDb
    /\ bot' = Command
    /\ SessionUnchanged

\* commands.ts 157-168: !resume-last-session
ResumeLastSessionCmd ==
    /\ LET id == getLatestSession(seenDb, getAgentBackend(seenDb))
       IN  seenDb' = IF id = Null THEN seenDb ELSE setCurrentSession(seenDb, id)
    /\ bot' = Command
    /\ SessionUnchanged

\* commands.ts 169-182: !resume-session <id>
ResumeSessionCmd(id) ==
    /\ seenDb' = setCurrentSession(seenDb, id)
    /\ bot' = Command
    /\ SessionUnchanged

\* commands.ts 309-357: !backend <name>
BackendCmd(selected, ok, id) ==
    /\ id \in SessionIds(selected)
    /\ seenDb' = IF selected = getAgentBackend(seenDb) THEN seenDb
                 ELSE IF ok
                 THEN createNewSession(setAgentBackend(seenDb, selected), selected, id)
                 ELSE setAgentBackend(seenDb, selected)
    /\ bot' = Command
    /\ SessionUnchanged

\* commands.ts 273-308: !workspace <target>
WorkspaceCmd(selected, ok, id) ==
    /\ id \in SessionIds(getAgentBackend(seenDb))
    /\ seenDb' = IF selected = getWorkspaceTarget(seenDb) THEN seenDb
                 ELSE IF ok
                 THEN createNewSession(setWorkspaceTarget(seenDb, selected),
                                       getAgentBackend(seenDb), id)
                 ELSE setWorkspaceTarget(seenDb, selected)
    /\ bot' = Command
    /\ SessionUnchanged

\* index.ts 247-258 with session.ts getOrCreateCurrentSession 61-85: the
\* current session when it is one of the selected backend, else a new one;
\* a CLI that fails throws and the message gets no session
MessageSession(ok, id) ==
    LET backendName == getAgentBackend(seenDb)
        cur == seenDb.current
    IN  /\ id \in SessionIds(backendName)
        /\ IF cur # Null /\ existsForBackend(seenDb, cur, backendName)
           THEN /\ bot' = [bot EXCEPT !.returned = cur]
                /\ UNCHANGED seenDb
           ELSE IF ok
           THEN /\ seenDb' = createNewSession(seenDb, backendName, id)
                /\ bot' = [bot EXCEPT !.returned = id,
                                      !.replaced = cur # Null /\ sessionExists(seenDb, cur)]
           ELSE /\ bot' = Command
                /\ UNCHANGED seenDb
        /\ SessionUnchanged

NextSessions ==
    \/ \E ok \in BOOLEAN, id \in AllSessionIds : NewSessionCmd(ok, id)
    \/ ResumeLastSessionCmd
    \/ \E id \in AllSessionIds : ResumeSessionCmd(id)
    \/ \E selected \in BackendNames, ok \in BOOLEAN, id \in AllSessionIds :
          BackendCmd(selected, ok, id)
    \/ \E selected \in WorkspaceTargets, ok \in BOOLEAN, id \in AllSessionIds :
          WorkspaceCmd(selected, ok, id)
    \/ \E ok \in BOOLEAN, id \in AllSessionIds : MessageSession(ok, id)

SpecSessions == InitBot /\ [][NextSessions]_vars

\* ----------------------------------------------------------------- chunking
\* the characters of a reply: a newline and one that is not
Chars == {"\n", "x"}
Texts == UNION {[1 .. n -> Chars] : n \in 0 .. MaxTextLen}

Min(a, b) == IF a <= b THEN a ELSE b

\* String.prototype.slice(start, end) with 0 <= start <= end
slice(str, start, end) == SubSeq(str, start + 1, Min(end, Len(str)))

\* String.prototype.lastIndexOf: the 0-based index of the last ch, or -1
lastIndexOf(str, ch) ==
    LET at == {i \in 1 .. Len(str) : str[i] = ch}
    IN  IF at = {} THEN 0 - 1 ELSE (CHOOSE i \in at : \A j \in at : j <= i) - 1

\* messaging.ts 35-46: the loop of chunkMessage
RECURSIVE chunkLoop(_, _)
chunkLoop(rest, chunks) ==
    IF ~(Len(rest) > 0) THEN chunks
    ELSE IF Len(rest) <= CHUNK_MAX THEN Append(chunks, rest)
    ELSE LET lastNewline == lastIndexOf(slice(rest, 0, CHUNK_MAX), "\n")
             splitAt == IF lastNewline >= 0 THEN lastNewline + 1 ELSE CHUNK_MAX
         IN  chunkLoop(slice(rest, splitAt, Len(rest)),
                       Append(chunks, slice(rest, 0, splitAt)))

\* messaging.ts chunkMessage 28-49
chunkMessage(text) ==
    IF Len(text) <= CHUNK_MAX THEN <<text>> ELSE chunkLoop(text, <<>>)

InitChunk ==
    /\ proofs = <<>>
    /\ spend_log = <<>>
    /\ now = 0
    /\ nextSecret = NumKeysets + 1
    /\ calls = [c \in Callers |-> IdleCall]
    /\ tokens = {}
    /\ reservations = {}
    /\ nOps = 0
    /\ inputUses = [s \in {} |-> 0]
    /\ carriedBy = [s \in {} |-> 0]
    /\ startBalance = Undefined
    /\ watcher = NoWatcher
    /\ seenDb = EmptyDb
    /\ \E text \in Texts : bot = [IdleBot EXCEPT !.text = text]

\* a reply is cut into the DMs that carry it
ChunkReply ==
    /\ ~bot.chunked
    /\ bot' = [bot EXCEPT !.chunked = TRUE, !.chunks = chunkMessage(bot.text)]
    /\ BotUnchanged

NextChunk == ChunkReply

SpecChunk == InitChunk /\ [][NextChunk]_vars

\* ------------------------------------------------------------ run-with-restart
\* exit codes of the bot: a clean exit, an error, an interrupt, a
\* termination by child.kill(), and null
ExitCodes == {0, 1, 130, 143, Undefined}

InitWatch ==
    /\ proofs = <<>>
    /\ spend_log = <<>>
    /\ now = 0
    /\ nextSecret = NumKeysets + 1
    /\ calls = [c \in Callers |-> IdleCall]
    /\ tokens = {}
    /\ reservations = {}
    /\ nOps = 0
    /\ inputUses = [s \in {} |-> 0]
    /\ carriedBy = [s \in {} |-> 0]
    /\ startBalance = Undefined
    /\ watcher \in {[NoWatcher EXCEPT !.child = "booting", !.starts = 1, !.file = f] :
                      f \in BOOLEAN}
    /\ seenDb = EmptyDb
    /\ bot = IdleBot

WatchUnchanged ==
    UNCHANGED <<proofs, spend_log, now, nextSecret, calls, tokens, reservations,
                nOps, inputUses, carriedBy, startBalance, seenDb, bot>>

\* index.ts 65-71: the bot removes restart.requested when it starts
BotStartup ==
    /\ watcher.child = "booting"
    /\ watcher' = [watcher EXCEPT !.child = "running", !.file = FALSE,
                                   !.event = watcher.event \/ watcher.file]
    /\ WatchUnchanged

\* touch restart.requested: the file exists and the directory watch fires
TouchRestartFile ==
    /\ watcher.child \in {"booting", "running", "exited"}
    /\ ~watcher.event
    /\ watcher' = [watcher EXCEPT !.file = TRUE, !.event = TRUE]
    /\ WatchUnchanged

\* publish-10050.sh 110-121: the watch callback
WatchCallback ==
    /\ watcher.event
    /\ watcher' =
          IF watcher.file
          THEN [watcher EXCEPT !.event = FALSE, !.file = FALSE,
                               !.restartRequested = TRUE, !.requested = TRUE,
                               !.child = IF watcher.child \in {"booting", "running"}
                                         THEN "killed" ELSE watcher.child]
          ELSE [watcher EXCEPT !.event = FALSE]
    /\ WatchUnchanged

\* the bot process ends: by itself with any code, or by the kill
BotExits(code) ==
    /\ \/ watcher.child \in {"booting", "running"}
       \/ watcher.child = "killed" /\ code \in {143, Undefined}
    /\ watcher' = [watcher EXCEPT !.child = "exited", !.code = code]
    /\ WatchUnchanged

\* publish-10050.sh 93-106: child.exited.then: restart on request, respawn
\* on an exit code other than 0, null and 130, else leave the bot down
start(w) ==
    IF w.restartRequested
    THEN [w EXCEPT !.restartRequested = FALSE, !.requested = TRUE,
                   !.child = "booting", !.starts = w.starts + 1]
    ELSE IF w.code # 0 /\ w.code # Undefined /\ w.code # 130
    THEN [w EXCEPT !.requested = FALSE, !.child = "booting", !.starts = w.starts + 1]
    ELSE [w EXCEPT !.child = "gone"]

OnExited ==
    /\ watcher.child = "exited"
    /\ watcher.starts < MaxStarts
    /\ watcher' = start(watcher)
    /\ WatchUnchanged

NextWatch ==
    \/ BotStartup
    \/ TouchRestartFile
    \/ WatchCallback
    \/ \E code \in ExitCodes : BotExits(code)
    \/ OnExited

SpecWatch == InitWatch /\ [][NextWatch]_vars

\* ================================================================== claims
Done(c) == calls[c].pc = "done"
SendDone(c) == Done(c) /\ calls[c].via = "sendToken"
SendOk(c) == SendDone(c) /\ calls[c].status = "ok"
ReceiveDone(c) == Done(c) /\ calls[c].via = "receiveToken"
PrepareDone(c) == Done(c) /\ calls[c].via = "prepareRun"
FinalizeDone(c) == Done(c) /\ calls[c].via = "finalizeRun"

StoredSet(table) == {Strip(table[i]) : i \in 1 .. Len(table)}

\* C1: conservation.  After each successful sendToken the balance is the
\* balance before the call minus amountSats, after each successful
\* receiveToken it is the balance before plus receivedSats, and a failed
\* call leaves the balance unchanged.  (Stated for amountSats >= 1.)
C1_Conservation ==
    \A c \in Callers :
        /\ (SendDone(c) /\ calls[c].amountSats >= 1) =>
             totalBalance(proofs) = totalBalance(calls[c].pre)
                 - (IF calls[c].status = "ok" THEN calls[c].amountSats ELSE 0)
        /\ ReceiveDone(c) =>
             totalBalance(proofs) = totalBalance(calls[c].pre)
                 + (IF calls[c].status = "ok" THEN calls[c].receivedSats ELSE 0)

\* C2: after a successful sendToken(amountSats), 1 <= amountSats <= balance,
\* the ledger holds exactly the proofs stored before that were not selected,
\* plus the keep proofs of the split.
C2_OnlySelectedDeleted ==
    \A c \in Callers :
        (SendOk(c) /\ calls[c].amountSats >= 1) =>
            StoredSet(proofs) =
                (StoredSet(calls[c].pre) \ StoredSet(calls[c].selected))
                    \cup StoredSet(calls[c].keep)

\* C3: when the balance is lower than the amount asked for, sendToken and
\* prepareRun fail with InsufficientFunds(available = balance, required =
\* amount) and the proofs, the Spend Log and the reservations are as before
\* the call; no token is produced.
C3_InsufficientFunds ==
    \A c \in Callers :
        (Done(c) /\ calls[c].via \in {"sendToken", "prepareRun"}
                 /\ totalBalance(calls[c].pre) < calls[c].amountSats) =>
            /\ calls[c].status = "InsufficientFunds"
            /\ calls[c].available = totalBalance(calls[c].pre)
            /\ calls[c].required = calls[c].amountSats
            /\ proofs = calls[c].pre
            /\ Len(spend_log) = calls[c].preLog
            /\ reservations = calls[c].preRes
            /\ calls[c].token = NoToken
            /\ calls[c].result = NoEnv

C3_Witness ==
    \E c \in Callers :
        /\ PrepareDone(c)
        /\ calls[c].status = "InsufficientFunds"
        /\ calls[c].available = 1
        /\ calls[c].required = 2
        /\ totalBalance(proofs) = 1

\* C4: in sendToken GET /keys and POST /split complete before the first
\* ledger mutation; when one of them fails, sendToken fails with the ledger
\* (and tokens, reservations, Spend Log) as before the call, and a retry
\* loads exactly the proofs the failed call had loaded.
C4_NetworkPending(c) == calls[c].pc \in {"keys", "split"}
C4_MintFailed(c) == Done(c) /\ calls[c].op = "sendToken" /\ calls[c].status = "MintError"
C4_MintFailureBeforeMutation ==
    /\ [](\A c \in Callers :
            /\ C4_NetworkPending(c) => proofs = calls[c].pre
            /\ C4_MintFailed(c) =>
                 /\ proofs = calls[c].pre
                 /\ Len(spend_log) = calls[c].preLog
                 /\ reservations = calls[c].preRes
                 /\ calls[c].token = NoToken)
    /\ [][\A c \in Callers :
            /\ (proofs' # proofs /\ calls'[c] # calls[c]) => ~C4_NetworkPending(c)'
            /\ (C4_MintFailed(c) /\ calls'[c].pc = "keys") =>
                  calls'[c].loaded = calls[c].pre]_vars

C4_Witness ==
    \E c \in Callers :
        /\ C4_MintFailed(c)
        /\ Len(calls[c].selected) > 0
        /\ totalBalance(calls[c].selected) > calls[c].amountSats
        /\ Len(proofs) = 2

\* the table a call leaves behind when it runs to completion
PostLedger(call) ==
    IF call.op = "sendToken"
    THEN SaveAll(DeleteAll(call.pre, call.loaded), call.keep, call.saveTs)
    ELSE SaveAll(call.pre, call.saveList, call.saveTs)

\* C5: every ledger-mutating wallet operation is all-or-nothing: wherever
\* the process stops, the ledger holds the complete pre-call proof set or
\* the complete post-call proof set (proofs compared by id, amount, secret
\* and C).
C5_AllOrNothing ==
    \A c \in Callers :
        calls[c].pc = "stopped" =>
            \/ StoredSet(proofs) = StoredSet(calls[c].pre)
            \/ /\ calls[c].at \in {"delete", "save", "ret", "log"}
               /\ StoredSet(proofs) = StoredSet(PostLedger(calls[c]))

\* C6: no resurrection.  After a successful sendToken none of the proofs it
\* selected (by secret) is stored, on the exact and on the split path.
C6_NoResurrection ==
    \A c \in Callers :
        (Done(c) /\ calls[c].op = "sendToken" /\ calls[c].status = "ok") =>
            Secrets(calls[c].selected) \cap Secrets(proofs) = {}

C6_Witness ==
    \E c \in Callers :
        /\ SendOk(c)
        /\ Len(calls[c].selected) = 2
        /\ Len(calls[c].keep) > 0
        /\ Len(proofs) > 0

TokenAmount(encoded) ==
    LET groups == getDecodedToken(encoded).token
    IN SumSeq([g \in 1 .. Len(groups) |->
                  SumSeq([i \in 1 .. Len(groups[g].proofs) |-> groups[g].proofs[i].amount])])

\* C8: the token returned by a successful sendToken(amountSats) carries
\* proofs worth exactly amountSats, on the exact and on the split path; with
\* one stored proof and a split that returns one keep proof, the ledger then
\* holds that keep proof and the stored proof is gone.
C8_TokenCarriesAmount ==
    \A c \in Callers :
        (Done(c) /\ calls[c].op = "sendToken" /\ calls[c].status = "ok") =>
            /\ CanDecode(calls[c].token)
            /\ TokenAmount(calls[c].token) = calls[c].amountSats
            /\ (Len(calls[c].pre) = 1 /\ Len(calls[c].keep) = 1) =>
                  /\ StoredSet(proofs) = StoredSet(calls[c].keep)
                  /\ totalBalance(proofs) = calls[c].pre[1].amount - calls[c].amountSats

C8_Witness ==
    \E c \in Callers :
        /\ SendOk(c)
        /\ Len(calls[c].pre) = 1
        /\ calls[c].pre[1].amount = 2
        /\ calls[c].amountSats = 1
        /\ TokenAmount(calls[c].token) = 1
        /\ totalBalance(proofs) = 1

\* C9: when balance >= budgetSats, prepareRun(budgetSats) lowers the balance
\* by exactly budgetSats, however the balance is divided into proofs, and
\* returns the token with ROUTSTR_BUDGET = budgetSats.  (Stated for
\* budgetSats >= 1.)
C9_PrepareRunDebitsBudget ==
    \A c \in Callers :
        (PrepareDone(c) /\ calls[c].status = "ok" /\ calls[c].amountSats >= 1) =>
            /\ totalBalance(proofs) = totalBalance(calls[c].pre) - calls[c].amountSats
            /\ calls[c].result.ROUTSTR_TOKEN = calls[c].token
            /\ ToNum(calls[c].result.ROUTSTR_BUDGET) = calls[c].amountSats

\* C10: each call of the Routstr finalizeRun appends exactly one Spend Log
\* row, whatever the gateway answers and also when receiveToken throws; no
\* row is written before the refund has been dealt with.
C10_FinalizeInFlight(c) ==
    calls[c].via = "finalizeRun" /\ calls[c].pc \in {"refund", "check", "save", "ret", "log"}
C10_OneSpendLogRow ==
    \A c \in Callers :
        /\ FinalizeDone(c) => Len(spend_log) = calls[c].preLog + 1
        /\ C10_FinalizeInFlight(c) => Len(spend_log) = calls[c].preLog

C10_Witness ==
    \E c \in Callers :
        /\ FinalizeDone(c)
        /\ calls[c].status = "MintError"
        /\ Len(spend_log) = 1

\* C11: when the gateway answers the refund request with anything but a
\* success that carries a token (402, another status, a success without a
\* token, an unreadable body, unreachable or timed out), finalizeRun returns
\* normally, the ledger is as it was, and the call's Spend Log row has
\* refundSats = 0 and spentSats = budgetSats.
C11_LastRow == spend_log[Len(spend_log)]
C11_NoRefundBooksWholeBudget ==
    \A c \in Callers :
        (FinalizeDone(c) /\ calls[c].gateway \notin {"none", "token"}) =>
            /\ ~calls[c].threw
            /\ proofs = calls[c].pre
            /\ Len(spend_log) = calls[c].preLog + 1
            /\ C11_LastRow.budget_sats = ToNum(calls[c].env.ROUTSTR_BUDGET)
            /\ C11_LastRow.refund_sats = 0
            /\ C11_LastRow.spent_sats = C11_LastRow.budget_sats

C11_Witness ==
    \E c \in Callers :
        /\ FinalizeDone(c)
        /\ calls[c].gateway = "throw"
        /\ Len(spend_log) = 1
        /\ spend_log[1].budget_sats >= 1
        /\ spend_log[1].spent_sats = spend_log[1].budget_sats

\* C12: when the gateway answers success with a change token, finalizeRun
\* passes that token to receiveToken, the ledger balance rises by exactly the
\* credited amount, and the call's Spend Log row records refundSats equal to
\* the credited amount.
C12_RefundCredited ==
    \A c \in Callers :
        (FinalizeDone(c) /\ calls[c].gateway = "token" /\ calls[c].status = "ok") =>
            /\ calls[c].input # NoToken
            /\ totalBalance(proofs) = totalBalance(calls[c].pre) + calls[c].receivedSats
            /\ spend_log[Len(spend_log)].refund_sats = calls[c].receivedSats

\* C13: losses never vanish silently.  Once every prepareRun that returned a
\* reservation has been followed by its finalizeRun (calls serialized, every
\* refund at most the budget, budgets of at least 1 sat, nothing else touching
\* the wallet), the ledger balance is the balance before the first
\* prepareRun minus the sum of spentSats over the Spend Log rows.
C13_SpentSats == [i \in 1 .. Len(spend_log) |-> spend_log[i].spent_sats]
C13_PairsComplete ==
    /\ startBalance # Undefined
    /\ reservations = {}
    /\ \A c \in Callers : Done(c)
    /\ \A i \in 1 .. Len(spend_log) :
          /\ spend_log[i].refund_sats <= spend_log[i].budget_sats
          /\ spend_log[i].budget_sats >= 1
C13_LossesAreLogged ==
    C13_PairsComplete => totalBalance(proofs) = startBalance - SumSeq(C13_SpentSats)

\* C14: every Spend Log row written by finalizeRun has
\* spentSats = max(0, budgetSats - refundSats) and 0 <= spentSats <= budgetSats,
\* also when the gateway over-refunds (refundSats > budgetSats).
C14_SpentSatsClamped ==
    \A i \in 1 .. Len(spend_log) :
        LET row == spend_log[i]
            diff == row.budget_sats - row.refund_sats
        IN /\ row.spent_sats = (IF diff > 0 THEN diff ELSE 0)
           /\ 0 <= row.spent_sats
           /\ row.spent_sats <= row.budget_sats

C14_Witness ==
    \E i \in 1 .. Len(spend_log) :
        /\ spend_log[i].budget_sats >= 1
        /\ spend_log[i].refund_sats > spend_log[i].budget_sats
        /\ spend_log[i].spent_sats = 0

\* C15: a reservation is finalized at most once.  A second finalizeRun for
\* a reservation that has been finalized sends no refund request, credits
\* nothing and appends no Spend Log row.
C15_FinalizedAtMostOnce ==
    \A c \in Callers :
        (calls[c].via = "finalizeRun" /\ calls[c].again) =>
            /\ calls[c].gateway = "none"
            /\ proofs = calls[c].pre
            /\ Len(spend_log) = calls[c].preLog

\* C16: every reservation produced by a successful prepareRun is eventually
\* finalized, whichever way the metered run ends (success, error,
\* cancellation).  In particular the process never ends with a reservation
\* that no finalizeRun has been called for.
C16_Exited == \A c \in Callers : calls[c].pc = "stopped"
C16_Stranded == {env \in reservations : ToNum(env.ROUTSTR_BUDGET) >= 1}
C17_TokenProofs(c) ==
    UNION {Range(calls[c].groups[g].proofs) : g \in 1 .. Len(calls[c].groups)}
C17_Valid(c) == {Strip(p) : p \in Range(calls[c].newProofs)}
C17_Answered(c) ==
    /\ Len(calls[c].reports) = Len(calls[c].groups)
    /\ \A g \in 1 .. Len(calls[c].reports) : calls[c].reports[g].outcome = "ok"
C17_PartiallyValid(c) ==
    /\ C17_Answered(c)
    /\ C17_Valid(c) # {}
    /\ C17_TokenProofs(c) \ C17_Valid(c) # {}
C17_ExactlyValidInserted ==
    \A c \in Callers :
        (ReceiveDone(c) /\ C17_PartiallyValid(c)) =>
            /\ ~calls[c].threw
            /\ calls[c].receivedSats = totalBalance(calls[c].newProofs)
            /\ C17_Valid(c) \subseteq StoredSet(proofs)
            /\ (C17_TokenProofs(c) \ C17_Valid(c)) \cap StoredSet(proofs) = {}

\* C18: when the mint accepts no proof of the token (every group answered,
\* none of its proofs reported valid), receiveToken returns receivedSats = 0
\* without an error and the ledger keeps the same proofs with the same fields.
C18_NoneValid(c) ==
    /\ Len(calls[c].groups) >= 1
    /\ Len(calls[c].reports) = Len(calls[c].groups)
    /\ \A g \in 1 .. Len(calls[c].reports) :
          \/ calls[c].reports[g].outcome = "notok"
          \/ /\ calls[c].reports[g].outcome = "ok"
             /\ \A i \in 1 .. Len(calls[c].reports[g].mask) : ~calls[c].reports[g].mask[i]
C18_NothingValidNothingChanged ==
    \A c \in Callers :
        (ReceiveDone(c) /\ C18_NoneValid(c)) =>
            /\ ~calls[c].threw
            /\ calls[c].status = "ok"
            /\ calls[c].receivedSats = 0
            /\ proofs = calls[c].pre

C18_Witness ==
    \E c \in Callers :
        /\ ReceiveDone(c)
        /\ C18_NoneValid(c)
        /\ Len(calls[c].groups[1].proofs) = MaxTokenProofs
        /\ calls[c].reports[1].outcome = "ok"
        /\ Len(proofs) >= 1
        /\ calls[c].receivedSats = 0

\* C19: a token that cannot be decoded, or that decodes without any group,
\* makes receiveToken fail with the invalid-token error before any call to the
\* mint, and the ledger is left as it was.
C19_Undecodable(t) == ~CanDecode(t) \/ Len(getDecodedToken(t).token) = 0
C19_InvalidTokenRejected ==
    \A c \in Callers :
        (calls[c].via = "receiveToken" /\ calls[c].pc # "stopped"
            /\ C19_Undecodable(calls[c].input)) =>
            /\ Done(c)
            /\ calls[c].threw
            /\ calls[c].status = "InvalidToken"
            /\ calls[c].reports = <<>>
            /\ proofs = calls[c].pre

C19_Witness ==
    \E c \in Callers :
        /\ ReceiveDone(c)
        /\ calls[c].input = EmptyToken
        /\ calls[c].status = "InvalidToken"
        /\ Len(proofs) >= 1

\* C20: when the mint's validity check fails for one group of a token with
\* several groups (an HTTP error status, a network failure or a timeout),
\* receiveToken counts no proof of that group, still checks the other groups,
\* stores their valid proofs and returns normally with their sum.
C20_GroupFailed(c, outcomes) ==
    /\ Len(calls[c].groups) >= 2
    /\ \E g \in 1 .. Len(calls[c].reports) : calls[c].reports[g].outcome \in outcomes
C20_Survived(c) ==
    /\ ~calls[c].threw
    /\ calls[c].status = "ok"
    /\ Len(calls[c].reports) = Len(calls[c].groups)
    /\ calls[c].receivedSats = totalBalance(calls[c].newProofs)
    /\ {Strip(p) : p \in Range(calls[c].newProofs)} \subseteq StoredSet(proofs)
C20_CheckFailureNotFatal ==
    \A c \in Callers :
        (ReceiveDone(c) /\ C20_GroupFailed(c, {"notok", "throw"})) => C20_Survived(c)

\* C21: when the proofs accumulated from the smallest sum to exactly
\* amountSats, sendToken makes no call to the mint: it never waits for the
\* mint and never fails with a mint error, so it succeeds with the mint
\* unreachable.
C21_ExactSelection(c) ==
    /\ calls[c].op = "sendToken"
    /\ calls[c].amountSats >= 1
    /\ totalBalance(calls[c].loaded) >= calls[c].amountSats
    /\ totalBalance(GreedySelect(SortByAmount(calls[c].loaded), calls[c].amountSats, 0))
          = calls[c].amountSats
C21_ExactSendNeedsNoMint ==
    \A c \in Callers :
        C21_ExactSelection(c) =>
            /\ calls[c].pc \notin {"keys", "split"}
            /\ calls[c].status # "MintError"

\* C22: for 1 <= amountSats <= balance the proofs sendToken selects are the
\* shortest prefix of the stored proofs in ascending order of amount whose sum
\* reaches amountSats: the selection sums to >= amountSats, without its last
\* proof it sums to < amountSats, it is ascending, and no stored proof outside
\* it is smaller than one inside it.
C22_Selected(c) ==
    /\ calls[c].op = "sendToken"
    /\ calls[c].amountSats >= 1
    /\ \/ calls[c].pc \in {"split", "delete", "save", "ret"}
       \/ calls[c].pc = "done" /\ calls[c].status = "ok"
C22_ShortestAscendingPrefix ==
    \A c \in Callers :
        C22_Selected(c) =>
            LET sel == calls[c].selected
                n == Len(sel)
                rest == {i \in 1 .. Len(calls[c].loaded) :
                            calls[c].loaded[i] \notin Range(sel)}
            IN /\ n >= 1
               /\ Range(sel) \subseteq Range(calls[c].loaded)
               /\ Cardinality(Range(sel)) = n
               /\ totalBalance(sel) >= calls[c].amountSats
               /\ totalBalance(SubSeq(sel, 1, n - 1)) < calls[c].amountSats
               /\ \A i \in 1 .. n - 1 : sel[i].amount <= sel[i + 1].amount
               /\ \A i \in rest : calls[c].loaded[i].amount >= sel[n].amount

C22_Witness ==
    \E c \in Callers :
        /\ SendOk(c)
        /\ Len(calls[c].loaded) = 2
        /\ calls[c].loaded[1].amount > calls[c].loaded[2].amount
        /\ calls[c].amountSats = 1
        /\ Len(calls[c].selected) = 1
        /\ calls[c].selected[1] = calls[c].loaded[2]

\* C23: a stored proof is never mutated in place.  Every proof that is in
\* the ledger before a sendToken or receiveToken call and still in it when the
\* call has returned has the same id, amount, secret, C, mint and updatedAt.
C23_NeverMutatedInPlace ==
    \A c \in Callers :
        ((SendDone(c) \/ ReceiveDone(c)) /\ calls[c].status = "ok") =>
            \A p \in Range(calls[c].pre) : \A q \in Range(proofs) :
                p.secret = q.secret => p = q

\* C24: getInfo and getStatus are read-only: a call of either leaves the
\* proof ledger and the Spend Log as they are, however often and between
\* whatever other operations it is made, and both report the sum of the
\* amounts of the proofs stored at that time.
C24_Reads == {"getInfo", "getStatus"}
C24_ReportsBalance ==
    \A c \in Callers :
        (Done(c) /\ calls[c].op \in C24_Reads) =>
            /\ calls[c].info.balanceSats = totalBalance(proofs)
            /\ proofs = calls[c].pre
            /\ Len(spend_log) = calls[c].preLog
C24_ReadStep ==
    \A c \in Callers :
        (calls[c]' # calls[c] /\ calls[c].op' \in C24_Reads) =>
            /\ proofs' = proofs
            /\ spend_log' = spend_log
C24_ReadOnly == [](C24_ReportsBalance) /\ [][C24_ReadStep]_vars

C24_Witness ==
    \E c \in Callers :
        /\ Done(c)
        /\ calls[c].op = "getStatus"
        /\ calls[c].info.balanceSats >= 2
        /\ Len(proofs) = 2
        /\ Len(spend_log) >= 1

\* C25: the Local provider is a no-op that always succeeds: its prepareRun
\* returns an empty environment for every budget and every wallet balance,
\* its finalizeRun returns for every input, and neither changes the proof
\* ledger nor appends a Spend Log row.
C25_LocalCalls == {"local.prepareRun", "local.finalizeRun"}
C25_LocalReturns ==
    \A c \in Callers :
        (calls[c].via \in C25_LocalCalls) =>
            /\ Done(c)
            /\ calls[c].status = "ok"
            /\ ~calls[c].threw
            /\ calls[c].via = "local.prepareRun" => EnvKeys(calls[c].result) = {}
            /\ proofs = calls[c].pre
            /\ Len(spend_log) = calls[c].preLog
C25_LocalStep ==
    \A c \in Callers :
        (calls[c]' # calls[c] /\ calls[c].via' \in C25_LocalCalls) =>
            /\ proofs' = proofs
            /\ spend_log' = spend_log
            /\ reservations' = reservations
C25_LocalIsNoOp == [](C25_LocalReturns) /\ [][C25_LocalStep]_vars

C25_Witness ==
    \E c \in Callers :
        /\ Done(c)
        /\ calls[c].via = "local.prepareRun"
        /\ calls[c].amountSats > totalBalance(proofs)
        /\ Len(proofs) >= 1
        /\ Len(spend_log) >= 1

\* C26: the Spend Log is append-only and write-only for the core: every
\* step leaves the rows written earlier in place with unchanged values, and
\* the one operation that reads the log, the history listing, changes neither
\* the proof ledger nor the log.
C26_AppendStep ==
    /\ Len(spend_log') >= Len(spend_log)
    /\ SubSeq(spend_log', 1, Len(spend_log)) = spend_log
C26_HistoryStep ==
    \A c \in Callers :
        (calls[c]' # calls[c] /\ calls[c].op' = "history") =>
            /\ proofs' = proofs
            /\ spend_log' = spend_log
C26_AppendOnly == [][C26_AppendStep /\ C26_HistoryStep]_vars

C26_Witness ==
    \E c \in Callers :
        /\ Done(c)
        /\ calls[c].op = "history"
        /\ Len(spend_log) = 2
        /\ Len(calls[c].history) = 2
        /\ calls[c].history[1] = spend_log[2]

\* C27: token round trip: for every token of several proofs, decoding it and
\* encoding the result gives the token back, with id, amount, secret and C of
\* every proof unchanged; and the proofs receiveToken decodes from the token
\* a successful sendToken returned are that call's send proofs, field by
\* field.
C27_Fields(ps) ==
    [i \in 1 .. Len(ps) |-> <<ps[i].id, ps[i].amount, ps[i].secret, ps[i].C>>]
C27_AllFields(groups) ==
    [g \in 1 .. Len(groups) |-> <<groups[g].mint, C27_Fields(groups[g].proofs)>>]
C27_RoundTrips(e) ==
    /\ getEncodedToken(getDecodedToken(e)) = e
    /\ C27_AllFields(getDecodedToken(getEncodedToken(getDecodedToken(e))).token)
          = C27_AllFields(getDecodedToken(e).token)
C28_Sent(c) == calls[c].op = "sendToken" /\ Done(c) /\ calls[c].status = "ok"
C28_SharedProof ==
    \E c, d \in DOMAIN calls :
        /\ c # d
        /\ C28_Sent(c) /\ C28_Sent(d)
        /\ \E s \in Secrets(calls[c].send) \cap Secrets(calls[d].send) :
              \E i \in 1 .. Len(calls[c].pre) : calls[c].pre[i].secret = s
C28_UnderDebited ==
    \E c, d \in DOMAIN calls :
        /\ c # d
        /\ C28_Sent(c) /\ C28_Sent(d)
        /\ totalBalance(calls[c].pre) >= totalBalance(calls[d].pre)
        /\ totalBalance(calls[c].pre) - totalBalance(proofs)
              < calls[c].amountSats + calls[d].amountSats
C28_Interleaved == \E c \in DOMAIN calls : calls[c].overlapped
C28_SingleWriterOnly ==
    (C28_SharedProof \/ C28_UnderDebited) => C28_Interleaved

C28_Witness ==
    /\ C28_Interleaved
    /\ C28_SharedProof
    /\ \A c \in DOMAIN calls : C28_Sent(c) /\ calls[c].amountSats >= 1

\* C29: a Nostr event is processed as a user message only if its unwrapped
\* rumor carries the master pubkey and is of kind 14: the handler of an
\* event from any other pubkey (or of another kind, or that does not
\* unwrap) executes no command, starts no agent run and sends no reply.
C29_FromMaster(e) == e.unwraps /\ e.pubkey = masterPubkey /\ e.kind = DmKind
C29_Acts(c) ==
    \/ calls[c].commands' # calls[c].commands
    \/ calls[c].agentRuns' # calls[c].agentRuns
    \/ calls[c].replies' # calls[c].replies
C29_Step ==
    \A c \in Callers :
        (calls[c].source = "nostr" /\ C29_Acts(c)) => C29_FromMaster(calls[c].event)
C29_OnlyMasterIsServed ==
    /\ [](\A c \in Callers :
            (calls[c].source = "nostr" /\ ~C29_FromMaster(calls[c].event)) =>
                calls[c].pc = "done" /\ calls[c].status \in {"ignored", "unwrapFailed"})
    /\ [][C29_Step]_vars

C29_Witness ==
    \E c \in Callers :
        /\ calls[c].source = "nostr"
        /\ calls[c].event.unwraps
        /\ calls[c].event.pubkey = OtherPubkey
        /\ calls[c].event.kind = DmKind
        /\ calls[c].event.content = "!exit"
        /\ calls[c].pc = "done"
        /\ calls[c].commands = 1
        /\ calls[c].replies = 1

\* C30: run-with-restart starts a new bot process only when restart.requested
\* has been created or touched: a bot process that exits without such a
\* request, with whatever exit code, is not started again.
C30_Started == watcher.starts' = watcher.starts + 1
C30_StartsOnlyOnRequest == [][C30_Started => watcher.restartRequested]_vars

\* C31: the default budget of a run is 2000 sats: the budget read while no
\* routstr_budget_sats value has ever been stored is 2000, and prepareRun
\* called without budgetSats reserves 2000.
C31_DefaultBudgetIs2000 ==
    \A c \in Callers :
        /\ (calls[c].via = "provider.budget" /\ calls[c].unset) =>
              calls[c].amountSats = DefaultBudgetSats
        /\ (calls[c].via = "prepareRun" /\ calls[c].optBudget = Undefined) =>
              calls[c].amountSats = DefaultBudgetSats

\* C32: at most one user-message handler is in flight at any time, whether
\* the messages come from the Nostr subscription, the local prompt or both.
C32_InFlight == Cardinality(bot.local) + Cardinality(bot.nostr)
C32_OneHandlerAtATime == C32_InFlight <= 1

\* C36: lines typed at the local prompt are handled one at a time and in
\* the order entered: the handling of a line starts only after the handling
\* of every earlier line has settled, and a handler that throws does not
\* keep a later line from being handled.
C36_LocalLinesInOrder ==
    /\ Cardinality(bot.local) <= 1
    /\ bot.order = [i \in 1 .. Len(bot.order) |-> i]
    /\ \A id \in bot.local : \A j \in 1 .. (id - 1) : j \in bot.settled
    /\ bot.skipped = {}

C36_Witness ==
    /\ 1 \in bot.threw
    /\ 2 \in bot.settled
    /\ bot.local = {3}
    /\ bot.order = <<1, 2, 3>>

\* C33: saving never drops or overwrites a distinct proof: after a
\* successful receiveToken every accepted proof is in the ledger and the
\* balance has risen by the sum of their amounts, and after a successful
\* sendToken every keep proof is in the ledger, also when several of them or
\* a stored proof carry the same id with different secrets.
C33_NoProofDropped ==
    \A c \in Callers :
        /\ (ReceiveDone(c) /\ calls[c].status = "ok") =>
              /\ StoredSet(calls[c].newProofs) \subseteq StoredSet(proofs)
              /\ StoredSet(calls[c].pre) \subseteq StoredSet(proofs)
              /\ totalBalance(proofs)
                    = totalBalance(calls[c].pre) + totalBalance(calls[c].newProofs)
        /\ SendOk(c) => StoredSet(calls[c].keep) \subseteq StoredSet(proofs)

\* C34: every proof receiveToken inserts into the ledger is one of the
\* proofs the decoded token carries (same id, amount, secret and C),
\* whatever the mint's /check answer contains, and receivedSats never
\* exceeds the token's total amount.
C34_OnlyTokenProofsStored ==
    \A c \in Callers :
        calls[c].op = "receiveToken" =>
            /\ StoredSet(calls[c].newProofs) \subseteq C17_TokenProofs(c)
            /\ (StoredSet(proofs) \ StoredSet(calls[c].pre)) \subseteq C17_TokenProofs(c)
            /\ (ReceiveDone(c) /\ calls[c].status = "ok") =>
                  calls[c].receivedSats <= TokenAmount(calls[c].input)

\* C35: sendToken(0) leaves every stored proof in place and returns a token
\* that carries no proofs; more generally a successful sendToken whose
\* selection is empty deletes nothing.
C35_EmptySelectionDeletesNothing ==
    \A c \in Callers :
        (SendOk(c) /\ Len(calls[c].selected) = 0) =>
            /\ calls[c].amountSats = 0
            /\ TokenAmount(calls[c].token) = 0
            /\ StoredSet(calls[c].pre) \subseteq StoredSet(proofs)
            /\ totalBalance(proofs) = totalBalance(calls[c].pre)

\* C37: a DM of the master is recorded as seen before its handler starts
\* and a wrap recorded as seen is never handled again, so every wrap id
\* starts handleUserMessage at most once, across redeliveries and restarts;
\* a wrap that arrives while the reply transport is 'local' is recorded as
\* seen and never handled.
C37_TimesHandled(wrap) ==
    Cardinality({i \in 1 .. Len(bot.handled) : bot.handled[i] = wrap})
C37_HandledAtMostOnce ==
    /\ \A wrap \in WrapIds : C37_TimesHandled(wrap) <= 1
    /\ \A wrap \in Range(bot.handled) \cup bot.nostr : wrap \in seenDb.seen
    /\ \A wrap \in bot.ignoredLocal :
          wrap \in seenDb.seen /\ C37_TimesHandled(wrap) = 0
    /\ \A wrap \in Range(bot.handled) : wrap.master /\ wrap.kind = DmKind

C37_Witness ==
    \E w1, w2 \in WrapIds :
        /\ w1 # w2
        /\ C37_TimesHandled(w1) = 1
        /\ w1 \in bot.dropped
        /\ w2 \in bot.ignoredLocal
        /\ w2 \in bot.dropped
        /\ getReplyTransport(seenDb) = "remote"
        /\ bot.starts > 1

\* C38: whatever session commands and messages came before, the session a
\* message is run in has a row in the sessions table whose backend is the
\* selected backend, and is the stored current session; a current session
\* of another backend is replaced by a new one instead of being used.
C38_ReturnedSessionIsOwn ==
    bot.returned # Null =>
        /\ existsForBackend(seenDb, bot.returned, getAgentBackend(seenDb))
        /\ seenDb.current = bot.returned
        /\ \A i \in 1 .. Len(seenDb.sessions) :
              seenDb.sessions[i].id = bot.returned =>
                  seenDb.sessions[i].backend = getAgentBackend(seenDb)

C38_Witness ==
    /\ bot.returned # Null
    /\ bot.replaced
    /\ \E i \in 1 .. Len(seenDb.sessions) :
          seenDb.sessions[i].backend # getAgentBackend(seenDb)

\* C39: chunkMessage ends for every text and returns chunks that are not
\* empty, hold at most CHUNK_MAX characters each and give the text back
\* when joined in order; a text of at most CHUNK_MAX characters comes back
\* as one chunk, and a chunk ends right after the last newline among the
\* first CHUNK_MAX characters when there is one.
RECURSIVE C39_Join(_)
C39_Join(chunks) ==
    IF chunks = <<>> THEN <<>> ELSE Head(chunks) \o C39_Join(Tail(chunks))
C39_BoundaryAfterNewline ==
    (Len(bot.text) > CHUNK_MAX /\ lastIndexOf(slice(bot.text, 0, CHUNK_MAX), "\n") >= 0) =>
        /\ Len(bot.chunks) >= 1
        /\ Len(bot.chunks[1]) = lastIndexOf(slice(bot.text, 0, CHUNK_MAX), "\n") + 1
C39_JoinedAndBounded ==
    bot.chunked =>
        /\ \A i \in 1 .. Len(bot.chunks) : Len(bot.chunks[i]) <= CHUNK_MAX
        /\ C39_Join(bot.chunks) = bot.text
        /\ Len(bot.text) <= CHUNK_MAX => bot.chunks = <<bot.text>>
        /\ C39_BoundaryAfterNewline
====
